---- MODULE Spec2Model ----
(***************************************************************************)
(* Orchestration core of reconPoint's ai_agents package: the worker pool   *)
(* (agents/worker_pool.py), the intelligence registry (agents/registry.py),*)
(* the tool-call loop with its result cache (agents/base_agent.py) and the *)
(* crew orchestrator (agents/orchestrator.py).                             *)
(*                                                                         *)
(* Execution is cooperative (asyncio): code between two suspension points  *)
(* runs atomically, so each action below is one such stretch of a handler. *)
(* The module holds several specifications over one set of variables; a    *)
(* specification leaves the variables of the other components unchanged.   *)
(***************************************************************************)
EXTENDS Integers, Sequences, FiniteSets, TLC

VARIABLES
    \* ---- worker pool (worker_pool.py) and worker directory (registry.py)
    tasks,        \* every asyncio task created by spawn, in creation order
    poolTasks,    \* WorkerPool._tasks: worker id -> index into tasks (0: absent)
    nextId,       \* WorkerPool._next_id
    regRec,       \* registry: worker id -> status of the stored record, or NoRec
    workerList,   \* registry: the project's worker_list key (ordered ids)
    wf,           \* the caller of wait_for: position and collected results
    lastOp,       \* history: "reset" right after reset(), "afterreset" from
                  \* the next step on until a spawn, "respawn" right after
                  \* the spawn that directly follows reset(), else "other"
    cc,           \* a caller of cancel or cancel_all: position and targets
    \* ---- tool-call loop and tool-result cache (base_agent.py, registry.py)
    toolCache,    \* registry: cache key -> cached result, or None
    agents,       \* per agent: position in BaseAgent.run
    lastCall,     \* the tool call completed last (history)
    \* ---- crew orchestrator (orchestrator.py)
    orch,         \* CrewOrchestrator: state, run position, iteration, report
    messages,     \* CrewOrchestrator._messages (the transcript)
    calls,        \* the executions of the current fan-out (asyncio.gather)
    crewReg,      \* worker ids listed in the registry for the project
    canc,         \* the caller of CrewOrchestrator.cancel()
    \* ---- _cleanup_pending_calls as a function of a transcript
    cleanIn,      \* a transcript handed to _cleanup_pending_calls
    cleanOut,     \* what it left, or NotRun
    \* ---- lifetimes of the registry's keys in the store (registry.py)
    recTtl,       \* worker id -> time left to the record key (0: not stored)
    listTtl,      \* time left to the worker_list key (0: not stored)
    \* ---- generate_tool_hash as a function of two tool calls
    hashIn,       \* the two calls handed to generate_tool_hash
    hashOut,      \* the keys it returned for them, or NotHashed
    resIn,        \* a sandbox plan and the messages a worker's loop yielded
    resOut,       \* the result the worker took from them, or NoResult
    router,       \* a ModelRouter: default_tier and _circuit_breakers
    routerCall    \* the call of the router made last and its outcome (history)

poolVars == <<tasks, poolTasks, nextId, regRec, workerList, wf, lastOp, cc>>
loopVars == <<toolCache, agents, lastCall>>
orchVars == <<orch, messages, calls, crewReg, canc>>
cleanVars == <<cleanIn, cleanOut>>
ttlVars == <<recTtl, listTtl>>
hashVars == <<hashIn, hashOut>>
resVars == <<resIn, resOut>>
routerVars == <<router, routerCall>>
vars == <<tasks, poolTasks, nextId, regRec, workerList, wf, lastOp, cc,
          toolCache, agents, lastCall,
          orch, messages, calls, crewReg, canc, cleanIn, cleanOut,
          recTtl, listTtl, hashIn, hashOut, resIn, resOut, router, routerCall>>

Range(s) == {s[i] : i \in 1..Len(s)}

(***************************************************************************)
(* Bounds of the model.                                                    *)
(***************************************************************************)
\* asyncio tasks created by spawn in one behaviour (over all resets)
MaxTasks == 2
\* max_iterations given to an agent of the tool-call loop
LoopMaxIterations == 2
\* tool calls carried by one completion
MaxCalls == 2
\* the orchestrator's iteration bound (ORCHESTRATOR_MAX_ITERATIONS)
OrchMaxIterations == 2
\* successive calls of run() on one orchestrator
MaxRuns == 2
\* length of the transcripts handed to _cleanup_pending_calls
MaxTranscript == 5
\* units of time a key written by set_worker lives (its timeout, 3600 s)
WorkerTtl == 2
\* argument names a tool call can use
MaxArgs == 2

(***************************************************************************)
(* models.py: AgentStatus                                                  *)
(***************************************************************************)
PENDING == "pending"
RUNNING == "running"
COMPLETE == "complete"
WARNING == "warning"
ERROR == "error"
FAILED == "failed"
CANCELLED == "cancelled"
AgentStatus == {PENDING, RUNNING, COMPLETE, WARNING, ERROR, FAILED, CANCELLED}
Terminal == {COMPLETE, WARNING, FAILED, ERROR, CANCELLED}

\* cache.get(key) of a key that is not stored
NoRec == "none"

WorkerIds == 0..(MaxTasks - 1)
\* depends_on lists given to spawn: empty, or one id (its own, an earlier or a later one)
DepChoices == {<< >>} \cup {<<d>> : d \in WorkerIds}

(***************************************************************************)
(* registry.py: the worker directory                                       *)
(***************************************************************************)
\* set_worker: the record key
RegSet(reg, id, st) == [reg EXCEPT ![id] = st]

\* set_worker: the id list, appended to when the id is not in it
ListAdd(list, id) == IF id \in Range(list) THEN list ELSE Append(list, id)

\* delete_worker: the id list with the id removed
ListRemove(list, id) == SelectSeq(list, LAMBDA x : x # id)

\* get_all_workers: the listed ids whose record is stored
GetAllWorkers(reg, list) == {id \in Range(list) : reg[id] # NoRec}

\* set_worker (lines 13-24) as a call of its own: the record key is set with
\* the timeout; the list key is set, with the timeout, only when the id is
\* not in the list that was read
SetWorker(id, st) ==
    /\ regRec' = RegSet(regRec, id, st)
    /\ recTtl' = [recTtl EXCEPT ![id] = WorkerTtl]
    /\ workerList' = ListAdd(workerList, id)
    /\ listTtl' = IF id \in Range(workerList) THEN listTtl ELSE WorkerTtl
    /\ UNCHANGED <<tasks, poolTasks, nextId, wf, lastOp, cc,
                   loopVars, orchVars, cleanVars, hashVars, resVars, routerVars>>

\* delete_worker (lines 32-42): the record key is deleted; when the id is in
\* the list that was read the list key is set again, without a timeout
\* argument, so with the lifetime d the store's configuration gives
DeleteWorker(id, d) ==
    /\ regRec' = RegSet(regRec, id, NoRec)
    /\ recTtl' = [recTtl EXCEPT ![id] = 0]
    /\ workerList' = ListRemove(workerList, id)
    /\ listTtl' = IF id \in Range(workerList) THEN d ELSE listTtl
    /\ UNCHANGED <<tasks, poolTasks, nextId, wf, lastOp, cc,
                   loopVars, orchVars, cleanVars, hashVars, resVars, routerVars>>

\* a unit of time passes: every stored key has one unit less to live, and a
\* key whose time has run out is gone (cache.get then gives its default)
Tick ==
    /\ listTtl > 0 \/ \E id \in WorkerIds : recTtl[id] > 0
    /\ recTtl' = [id \in WorkerIds |-> IF recTtl[id] > 0 THEN recTtl[id] - 1 ELSE 0]
    /\ regRec' = [id \in WorkerIds |-> IF recTtl[id] > 1 THEN regRec[id] ELSE NoRec]
    /\ listTtl' = IF listTtl > 0 THEN listTtl - 1 ELSE 0
    /\ workerList' = IF listTtl > 1 THEN workerList ELSE << >>
    /\ UNCHANGED <<tasks, poolTasks, nextId, wf, lastOp, cc,
                   loopVars, orchVars, cleanVars, hashVars, resVars, routerVars>>

(***************************************************************************)
(* worker_pool.py: tasks                                                   *)
(*  st: created  scheduled by create_task, not yet run                     *)
(*      waitdep  suspended in _wait_for_dependencies on task `wait`        *)
(*      starting suspended in worker_runtime.start() (before the try)      *)
(*      loop     suspended in agent.agent_loop (inside the try)            *)
(*      stopping suspended in worker_runtime.stop() (the finally)          *)
(*      done     the task is done, with outcome `out`                      *)
(*  mem is worker.status of the task's AgentWorker object; rel (history)   *)
(*  records that the task was released from a wait on a dependency that    *)
(*  ended by an exception or by cancellation.                              *)
(*  hitmax, infeasible: the locals hit_max_iterations and is_infeasible.   *)
(*  History: hit is where the task stood when a cancel call first reached  *)
(*  it; exc, that an exception other than cancellation was raised in it;   *)
(*  started and stopped, that start() and stop() of its runtime were       *)
(*  invoked.                                                               *)
(***************************************************************************)
\* lastOp after a step that is neither reset() nor spawn()
AfterOp == IF lastOp \in {"reset", "afterreset"} THEN "afterreset" ELSE "other"

NewTask(id, deps) ==
    [wid |-> id, deps |-> deps, st |-> "created", creq |-> FALSE,
     mem |-> PENDING, di |-> 0, wait |-> 0, pend |-> "ok", out |-> "none",
     rel |-> FALSE, hitmax |-> FALSE, infeasible |-> FALSE,
     hit |-> "none", exc |-> FALSE, started |-> FALSE, stopped |-> FALSE]

IsDone(t) == tasks[t].st = "done"

\* a plausible slip: _wait_for_dependencies returns without awaiting
DepScanNoWait(t, i) == Len(tasks[t].deps) + 1

\* _wait_for_dependencies from position i of depends_on: the first position
\* whose await suspends, or Len + 1. An id that is not tracked is skipped; a
\* done task's await returns (or raises and is swallowed) at once; awaiting
\* the task itself raises RuntimeError, which is swallowed too.
RECURSIVE DepScan(_, _)
DepScan(t, i) ==
    IF i > Len(tasks[t].deps) THEN i
    ELSE LET d == tasks[t].deps[i]
             u == poolTasks[d]
         IN IF u = 0 \/ u = t \/ IsDone(u) THEN DepScan(t, i + 1) ELSE i

\* lines 99-112: the transition to RUNNING, written through, then start()
BecomeRunning(t, rel) ==
    /\ tasks' = [tasks EXCEPT ![t].st = "starting", ![t].mem = RUNNING,
                              ![t].creq = FALSE, ![t].wait = 0,
                              ![t].rel = rel, ![t].started = TRUE]
    /\ regRec' = RegSet(regRec, tasks[t].wid, RUNNING)
    /\ workerList' = ListAdd(workerList, tasks[t].wid)

\* a plausible slip: workers are run one after the other, a worker waiting
\* for every task created before it
AfterDepsSerial(t, i, rel) ==
    LET earlier == {u \in 1..(t - 1) : ~IsDone(u)}
    IN IF earlier = {}
       THEN BecomeRunning(t, rel)
       ELSE /\ tasks' = [tasks EXCEPT ![t].st = "waitdep", ![t].di = i,
                                      ![t].wait = CHOOSE u \in earlier : TRUE,
                                      ![t].creq = FALSE, ![t].rel = rel]
            /\ UNCHANGED <<cc, regRec, workerList>>

\* lines 95-112 from position i of depends_on on
AfterDeps(t, i, rel) ==
    LET j == DepScan(t, i)
    IN IF j > Len(tasks[t].deps)
       THEN BecomeRunning(t, rel)
       ELSE /\ tasks' = [tasks EXCEPT ![t].st = "waitdep", ![t].di = j,
                                      ![t].wait = poolTasks[tasks[t].deps[j]],
                                      ![t].creq = FALSE, ![t].rel = rel]
            /\ UNCHANGED <<cc, regRec, workerList>>

\* a plausible slip: _generate_id without the increment of line 45
SpawnSameId(deps) ==
    /\ Len(tasks) < MaxTasks
    /\ nextId \in WorkerIds
    /\ tasks' = Append(tasks, NewTask(nextId, deps))
    /\ poolTasks' = [poolTasks EXCEPT ![nextId] = Len(tasks) + 1]
    /\ nextId' = nextId
    /\ regRec' = RegSet(regRec, nextId, PENDING)
    /\ workerList' = ListAdd(workerList, nextId)
    /\ lastOp' = IF lastOp = "reset" THEN "respawn" ELSE "other"
    /\ UNCHANGED <<cc, wf, loopVars, orchVars, cleanVars, ttlVars, hashVars, resVars, routerVars>>

\* spawn (lines 65-89): the lock is free whenever spawn is called, since
\* nothing is awaited while it is held, so spawn takes it without suspending
\* and runs to its return in one step
Spawn(deps) ==
    /\ Len(tasks) < MaxTasks
    /\ nextId \in WorkerIds
    /\ tasks' = Append(tasks, NewTask(nextId, deps))
    /\ poolTasks' = [poolTasks EXCEPT ![nextId] = Len(tasks) + 1]
    /\ nextId' = nextId + 1
    /\ regRec' = RegSet(regRec, nextId, PENDING)
    /\ workerList' = ListAdd(workerList, nextId)
    /\ lastOp' = IF lastOp = "reset" THEN "respawn" ELSE "other"
    /\ UNCHANGED <<cc, wf, loopVars, orchVars, cleanVars, ttlVars, hashVars, resVars, routerVars>>

\* the task's first step; a cancellation requested before it ends the task
\* before any line of _run_worker runs
WorkerBegin(t) ==
    /\ tasks[t].st = "created"
    /\ IF tasks[t].creq
       THEN /\ tasks' = [tasks EXCEPT ![t].st = "done", ![t].out = "cancelled",
                                      ![t].creq = FALSE]
            /\ UNCHANGED <<cc, regRec, workerList>>
       ELSE AfterDeps(t, 1, FALSE)
    /\ lastOp' = AfterOp
    /\ UNCHANGED <<cc, poolTasks, nextId, wf, loopVars, orchVars, cleanVars, ttlVars, hashVars, resVars, routerVars>>

\* a plausible slip: line 246 catches CancelledError only, so the exception
\* of a dependency ends the worker that waits for it
DepReleasedPropagating(t) ==
    /\ tasks[t].st = "waitdep"
    /\ IsDone(tasks[t].wait)
    /\ IF tasks[tasks[t].wait].out = "exc"
       THEN /\ tasks' = [tasks EXCEPT ![t].st = "done", ![t].out = "exc",
                                      ![t].exc = TRUE, ![t].creq = FALSE]
            /\ UNCHANGED <<cc, regRec, workerList>>
       ELSE AfterDeps(t, tasks[t].di + 1,
                      tasks[t].rel \/ tasks[tasks[t].wait].out = "cancelled")
    /\ lastOp' = AfterOp
    /\ UNCHANGED <<cc, poolTasks, nextId, wf, loopVars, orchVars, cleanVars, ttlVars, hashVars, resVars, routerVars>>

\* lines 244-247: the awaited dependency is done; whatever it raised (and a
\* CancelledError thrown at this await) is swallowed
DepReleased(t) ==
    /\ tasks[t].st = "waitdep"
    /\ IsDone(tasks[t].wait)
    /\ LET failed == tasks[tasks[t].wait].out \in {"exc", "cancelled"}
       IN AfterDeps(t, tasks[t].di + 1, tasks[t].rel \/ failed)
    /\ lastOp' = AfterOp
    /\ UNCHANGED <<cc, poolTasks, nextId, wf, loopVars, orchVars, cleanVars, ttlVars, hashVars, resVars, routerVars>>

\* line 112 returns or raises; it is outside the try, so an exception or a
\* cancellation ends the task with the status left at RUNNING
StartReturns(t, ok) ==
    /\ tasks[t].st = "starting"
    /\ tasks' = IF tasks[t].creq
                THEN [tasks EXCEPT ![t].st = "done", ![t].out = "cancelled",
                                   ![t].creq = FALSE]
                ELSE IF ok THEN [tasks EXCEPT ![t].st = "loop"]
                ELSE [tasks EXCEPT ![t].st = "done", ![t].out = "exc",
                                   ![t].exc = TRUE]
    /\ lastOp' = AfterOp
    /\ UNCHANGED <<cc, poolTasks, nextId, regRec, workerList, wf,
                   loopVars, orchVars, cleanVars, ttlVars, hashVars, resVars, routerVars>>

\* what the metadata of a message of the agent loop can flag
MetaChoices == {"none", "max_iterations_reached", "replan_impossible"}

\* lines 138-180: the agent loop yields a message; the record is written
\* again (line 169) and the metadata flags are noted (lines 176-180)
LoopMessage(t, meta) ==
    /\ tasks[t].st = "loop"
    /\ ~tasks[t].creq
    /\ tasks' = [tasks EXCEPT
                   ![t].hitmax = @ \/ meta = "max_iterations_reached",
                   ![t].infeasible = @ \/ meta = "replan_impossible"]
    /\ regRec' = RegSet(regRec, tasks[t].wid, tasks[t].mem)
    /\ workerList' = ListAdd(workerList, tasks[t].wid)
    /\ lastOp' = AfterOp
    /\ UNCHANGED <<cc, poolTasks, nextId, wf, loopVars, orchVars, cleanVars, ttlVars, hashVars, resVars, routerVars>>

\* lines 182-218: the loop is exhausted; the only status assigned is COMPLETE
\* (line 210; hit_max_iterations and is_infeasible are read nowhere), written
\* through by line 212; then the finally awaits stop()
LoopEnds(t) ==
    /\ tasks[t].st = "loop"
    /\ ~tasks[t].creq
    /\ tasks' = [tasks EXCEPT ![t].st = "stopping", ![t].mem = COMPLETE,
                              ![t].pend = "ok", ![t].stopped = TRUE]
    /\ regRec' = RegSet(regRec, tasks[t].wid, COMPLETE)
    /\ workerList' = ListAdd(workerList, tasks[t].wid)
    /\ lastOp' = AfterOp
    /\ UNCHANGED <<cc, poolTasks, nextId, wf, loopVars, orchVars, cleanVars, ttlVars, hashVars, resVars, routerVars>>

\* lines 226-231: an exception inside the try
LoopRaises(t) ==
    /\ tasks[t].st = "loop"
    /\ ~tasks[t].creq
    /\ tasks' = [tasks EXCEPT ![t].st = "stopping", ![t].mem = ERROR,
                              ![t].pend = "ok", ![t].exc = TRUE,
                              ![t].stopped = TRUE]
    /\ regRec' = RegSet(regRec, tasks[t].wid, ERROR)
    /\ workerList' = ListAdd(workerList, tasks[t].wid)
    /\ lastOp' = AfterOp
    /\ UNCHANGED <<cc, poolTasks, nextId, wf, loopVars, orchVars, cleanVars, ttlVars, hashVars, resVars, routerVars>>

\* lines 220-224: CancelledError inside the try; the status is set on the
\* worker object only (no set_worker), and the error is re-raised
LoopCancelled(t) ==
    /\ tasks[t].st = "loop"
    /\ tasks[t].creq
    /\ tasks' = [tasks EXCEPT ![t].st = "stopping", ![t].mem = CANCELLED,
                              ![t].pend = "cancelled", ![t].creq = FALSE,
                              ![t].stopped = TRUE]
    /\ lastOp' = AfterOp
    /\ UNCHANGED <<cc, poolTasks, nextId, regRec, workerList, wf,
                   loopVars, orchVars, cleanVars, ttlVars, hashVars, resVars, routerVars>>

\* a plausible slip: the cancellation that arrives during stop() is recorded
StopReturnsRecording(t) ==
    /\ tasks[t].st = "stopping"
    /\ tasks' = [tasks EXCEPT ![t].st = "done", ![t].creq = FALSE,
                   ![t].mem = IF tasks[t].creq THEN CANCELLED ELSE @,
                   ![t].out = IF tasks[t].creq THEN "cancelled" ELSE tasks[t].pend]
    /\ regRec' = IF tasks[t].creq THEN RegSet(regRec, tasks[t].wid, CANCELLED)
                 ELSE regRec
    /\ lastOp' = AfterOp
    /\ UNCHANGED <<cc, poolTasks, nextId, workerList, wf,
                   loopVars, orchVars, cleanVars, ttlVars, hashVars, resVars, routerVars>>

\* lines 233-238: stop() returns, or raises and is suppressed; a cancellation
\* delivered here leaves the finally as CancelledError. Nothing is written.
StopReturns(t) ==
    /\ tasks[t].st = "stopping"
    /\ tasks' = [tasks EXCEPT ![t].st = "done", ![t].creq = FALSE,
                   ![t].out = IF tasks[t].creq THEN "cancelled" ELSE tasks[t].pend]
    /\ lastOp' = AfterOp
    /\ UNCHANGED <<cc, poolTasks, nextId, regRec, workerList, wf,
                   loopVars, orchVars, cleanVars, ttlVars, hashVars, resVars, routerVars>>

(***************************************************************************)
(* worker_pool.py: cancel, cancel_all                                      *)
(***************************************************************************)
\* asyncio's Task.cancel() as lines 301 and 313 call it: a task suspended on
\* another task that is not done hands the request to that task and is not
\* marked itself; any other task is marked, and CancelledError is thrown at
\* its next step. The task the request ends at, or 0 when the waits form a
\* cycle (the call then raises RecursionError and marks nothing).
RECURSIVE ChainRoot(_, _, _)
ChainRoot(ts, t, seen) ==
    IF t \in seen THEN 0
    ELSE IF ts[t].st = "waitdep" /\ ts[ts[t].wait].st # "done"
         THEN ChainRoot(ts, ts[t].wait, seen \cup {t})
         ELSE t

\* history: the suspension point before the finally at which task t stands
\* when a cancel call first reaches it
Reached(ts, t) ==
    IF ts[t].hit = "none" /\ ts[t].st \in {"waitdep", "starting", "loop"}
    THEN [ts EXCEPT ![t].hit = ts[t].st] ELSE ts

TaskCancel(ts, t) ==
    LET r == ChainRoot(ts, t, {})
    IN IF r = 0 THEN ts
       ELSE [Reached(Reached(ts, t), r) EXCEPT ![r].creq = TRUE]

\* the caller of cancel(arg) (kind "one") or of cancel_all (kind "all")
CcIdle == [pc |-> "idle", kind |-> "none", arg |-> 0, targets |-> {}, ok |-> FALSE]

\* the tasks in the task table
Tracked == {poolTasks[id] : id \in {i \in WorkerIds : poolTasks[i] # 0}}

\* cancel (lines 294-303) on a tracked task that is not done: task.cancel(),
\* then the task is awaited. task.cancel() raises when the waits form a
\* cycle. The caller is followed in cc when follow is set and no other
\* caller is being followed; the call has its effect either way.
Cancel(id, follow) ==
    /\ poolTasks[id] # 0
    /\ ~IsDone(poolTasks[id])
    /\ tasks' = TaskCancel(tasks, poolTasks[id])
    /\ cc' = IF cc.pc # "idle" \/ ~follow THEN cc
             ELSE IF ChainRoot(tasks, poolTasks[id], {}) = 0
             THEN [pc |-> "raised", kind |-> "one", arg |-> id,
                   targets |-> {poolTasks[id]}, ok |-> FALSE]
             ELSE [pc |-> "wait", kind |-> "one", arg |-> id,
                   targets |-> {poolTasks[id]}, ok |-> FALSE]
    /\ lastOp' = AfterOp
    /\ UNCHANGED <<poolTasks, nextId, regRec, workerList, wf,
                   loopVars, orchVars, cleanVars, ttlVars, hashVars, resVars, routerVars>>

\* cancel (lines 296-297 and 300, 307): False for an id that is not tracked
\* or whose task is done
CancelRefused(id) ==
    /\ cc.pc = "idle"
    /\ IF poolTasks[id] = 0 THEN TRUE ELSE IsDone(poolTasks[id])
    /\ cc' = [pc |-> "ret", kind |-> "one", arg |-> id, targets |-> {},
              ok |-> FALSE]
    /\ lastOp' = AfterOp
    /\ UNCHANGED <<tasks, poolTasks, nextId, regRec, workerList, wf,
                   loopVars, orchVars, cleanVars, ttlVars, hashVars, resVars, routerVars>>

\* cancel_all, lines 311-313: the tracked tasks in the table's order; the
\* loop ends at the first call that raises
RECURSIVE CancelFrom(_, _)
CancelFrom(ts, id) ==
    IF id \notin WorkerIds \/ poolTasks[id] = 0 THEN ts
    ELSE LET t == poolTasks[id]
         IN IF ts[t].st = "done" THEN CancelFrom(ts, id + 1)
            ELSE IF ChainRoot(ts, t, {}) = 0 THEN ts
            ELSE CancelFrom(TaskCancel(ts, t), id + 1)

\* a task.cancel() of lines 311-313 raises
CancelAllRaises ==
    \E id \in WorkerIds : /\ poolTasks[id] # 0
                          /\ ~IsDone(poolTasks[id])
                          /\ ChainRoot(tasks, poolTasks[id], {}) = 0

CancelAll(follow) ==
    /\ \E id \in WorkerIds : poolTasks[id] # 0 /\ ~IsDone(poolTasks[id])
    /\ tasks' = CancelFrom(tasks, 0)
    /\ cc' = IF cc.pc # "idle" \/ ~follow THEN cc
             ELSE [pc |-> IF CancelAllRaises THEN "raised" ELSE "wait",
                   kind |-> "all", arg |-> 0, targets |-> Tracked, ok |-> FALSE]
    /\ lastOp' = AfterOp
    /\ UNCHANGED <<poolTasks, nextId, regRec, workerList, wf,
                   loopVars, orchVars, cleanVars, ttlVars, hashVars, resVars, routerVars>>

\* a plausible slip: cancel returns after task.cancel() without awaiting
CancelDoneUnawaited ==
    /\ cc.pc = "wait"
    /\ cc' = [cc EXCEPT !.pc = "ret", !.ok = TRUE]
    /\ lastOp' = AfterOp
    /\ UNCHANGED <<tasks, poolTasks, nextId, regRec, workerList, wf,
                   loopVars, orchVars, cleanVars, ttlVars, hashVars, resVars, routerVars>>

\* lines 302-306: the awaited task is done; CancelledError is swallowed and
\* True returned, any other exception of the task leaves cancel() raised.
\* Line 317: the gather (return_exceptions=True) returns when every task it
\* was given is done.
CancelDone ==
    /\ cc.pc = "wait"
    /\ \A t \in cc.targets : IsDone(t)
    /\ cc' = IF cc.kind = "one" /\ \E t \in cc.targets : tasks[t].out = "exc"
             THEN [cc EXCEPT !.pc = "raised"]
             ELSE [cc EXCEPT !.pc = "ret", !.ok = TRUE]
    /\ lastOp' = AfterOp
    /\ UNCHANGED <<tasks, poolTasks, nextId, regRec, workerList, wf,
                   loopVars, orchVars, cleanVars, ttlVars, hashVars, resVars, routerVars>>

\* the caller goes on
CancelTaken ==
    /\ cc.pc \in {"ret", "raised"}
    /\ cc' = CcIdle
    /\ lastOp' = AfterOp
    /\ UNCHANGED <<tasks, poolTasks, nextId, regRec, workerList, wf,
                   loopVars, orchVars, cleanVars, ttlVars, hashVars, resVars, routerVars>>

(***************************************************************************)
(* worker_pool.py: wait_for                                                *)
(***************************************************************************)
WfIdle ==
    [pc |-> "idle", all |-> FALSE, q |-> FALSE, ids |-> << >>, i |-> 0,
     wt |-> 0, res |-> {}, exp |-> {}]

\* every task created so far is done
AllSettled == \A t \in 1..Len(tasks) : IsDone(t)

\* the ids whose record the registry holds
LiveRecords == {id \in WorkerIds : regRec[id] # NoRec}

\* list(self._tasks.keys()): the tracked ids in insertion order
RECURSIVE TrackedFrom(_)
TrackedFrom(id) ==
    IF id \notin WorkerIds \/ poolTasks[id] = 0 THEN << >>
    ELSE <<id>> \o TrackedFrom(id + 1)

\* lines 270-279: an entry is made when the registry holds the record
WfEntry(res, id) == IF regRec[id] # NoRec THEN res \cup {id} ELSE res

\* lines 263-281 from position i on: runs on while the awaited tasks are
\* done. c is the call (all: agent_ids was None; q, history: every spawned
\* worker had settled when the call was made); exp (history) is the set of
\* recorded worker ids when the call returns.
RECURSIVE WfRun(_, _, _, _)
WfRun(c, ids, i, res) ==
    IF i > Len(ids)
    THEN [pc |-> "ret", all |-> c.all, q |-> c.q, ids |-> ids, i |-> i,
          wt |-> 0, res |-> res, exp |-> LiveRecords]
    ELSE LET id == ids[i]
             t == poolTasks[id]
         IN IF t = 0 THEN WfRun(c, ids, i + 1, res)
            ELSE IF ~IsDone(t)
            THEN [pc |-> "wait", all |-> c.all, q |-> c.q, ids |-> ids,
                  i |-> i, wt |-> t, res |-> res, exp |-> {}]
            ELSE WfRun(c, ids, i + 1, WfEntry(res, id))

\* wait_for(None) and wait_for([id]) are called
WaitForCall(all, id) ==
    /\ wf.pc = "idle"
    /\ LET c == [all |-> all, q |-> tasks # << >> /\ AllSettled]
       IN wf' = IF all THEN WfRun(c, TrackedFrom(0), 1, {})
                ELSE WfRun(c, <<id>>, 1, {})
    /\ lastOp' = AfterOp
    /\ UNCHANGED <<cc, tasks, poolTasks, nextId, regRec, workerList,
                   loopVars, orchVars, cleanVars, ttlVars, hashVars, resVars, routerVars>>

\* the awaited task is done: its record is read and the loop goes on
WaitForResume ==
    /\ wf.pc = "wait"
    /\ IsDone(wf.wt)
    /\ wf' = WfRun(wf, wf.ids, wf.i + 1, WfEntry(wf.res, wf.ids[wf.i]))
    /\ lastOp' = AfterOp
    /\ UNCHANGED <<cc, tasks, poolTasks, nextId, regRec, workerList,
                   loopVars, orchVars, cleanVars, ttlVars, hashVars, resVars, routerVars>>

\* the caller takes the result
WaitForReturn ==
    /\ wf.pc = "ret"
    /\ wf' = WfIdle
    /\ lastOp' = AfterOp
    /\ UNCHANGED <<cc, tasks, poolTasks, nextId, regRec, workerList,
                   loopVars, orchVars, cleanVars, ttlVars, hashVars, resVars, routerVars>>

(***************************************************************************)
(* worker_pool.py: reset, and a pool constructed anew                      *)
(***************************************************************************)
\* a plausible slip: reset() without line 341
ResetKeepsCounter ==
    /\ regRec' = [id \in WorkerIds |->
                    IF id \in Range(workerList) THEN NoRec ELSE regRec[id]]
    /\ workerList' = << >>
    /\ poolTasks' = [id \in WorkerIds |-> 0]
    /\ lastOp' = "reset"
    /\ UNCHANGED <<cc, nextId, tasks, wf, loopVars, orchVars, cleanVars, ttlVars, hashVars, resVars, routerVars>>

\* reset (lines 329-341): every listed record and the list are deleted, the
\* task table is cleared (its tasks are not cancelled), the counter restarts
Reset ==
    /\ regRec' = [id \in WorkerIds |->
                    IF id \in Range(workerList) THEN NoRec ELSE regRec[id]]
    /\ workerList' = << >>
    /\ poolTasks' = [id \in WorkerIds |-> 0]
    /\ nextId' = 0
    /\ lastOp' = "reset"
    /\ UNCHANGED <<cc, tasks, wf, loopVars, orchVars, cleanVars, ttlVars, hashVars, resVars, routerVars>>

\* __init__ (lines 31-35) for the same project once every task of the
\* earlier pool is done (a restarted process, or the next run): an empty
\* task table and a counter at 0 over the registry as it was left
NewPool ==
    /\ tasks # << >>
    /\ \A t \in 1..Len(tasks) : IsDone(t)
    /\ wf.pc = "idle"
    /\ \E id \in WorkerIds : poolTasks[id] # 0
    /\ poolTasks' = [id \in WorkerIds |-> 0]
    /\ nextId' = 0
    /\ lastOp' = AfterOp
    /\ UNCHANGED <<cc, tasks, regRec, workerList, wf, loopVars, orchVars, cleanVars, ttlVars, hashVars, resVars, routerVars>>

(***************************************************************************)
(* base_agent.py: the tool-call loop, and registry.py: the tool cache      *)
(***************************************************************************)
\* cache.get(key) of a key that is not stored (Python's None)
None == "<None>"

\* the strings a tool's execute can return: the empty string and two others
ToolResults == {"", "r1", "r2"}

\* Python's truth value of a cached result (line 119: `if cached_result:`)
Truthy(v) == v # None /\ v # ""

\* cache keys: generate_tool_hash of (role, tool, sorted arguments, prompt
\* prefix); two calls have the same key exactly when these are the same
CacheKeys == {1, 2}

\* a requested call: the cache key of a call to a registered tool, or
\* UnknownTool for a tool name get_tool does not resolve
UnknownTool == 0
CallChoices == CacheKeys \cup {UnknownTool}

RECURSIVE SeqsUpTo(_, _)
SeqsUpTo(S, n) ==
    IF n = 0 THEN {<< >>}
    ELSE LET shorter == SeqsUpTo(S, n - 1)
         IN shorter \cup {Append(q, x) : q \in {r \in shorter : Len(r) = n - 1}, x \in S}

\* the tool calls one completion can carry (none: a final answer)
TurnChoices == SeqsUpTo(CallChoices, MaxCalls)

AgentIds == {1, 2}

\* get_tool_result
GetToolResult(cache, k) == cache[k]

\* cache_tool_result
CacheToolResult(cache, k, v) == [cache EXCEPT ![k] = v]

\* line 119: the cached result is used when it is truthy
CacheHit(cache, k) == Truthy(GetToolResult(cache, k))

NoCall == [agent |-> 0, key |-> 0, executed |-> FALSE, result |-> None, prior |-> None]

\* hist is conversation_history, kept by the model for an agent whose run
\* was called with keep; end (history) is how run ended: by a final answer,
\* at the iteration bound, or by an exception of generate; flagged
\* (history) is that a message run yielded carried max_iterations_reached
\* in its metadata (every message is built with the default, empty metadata)
AgentIdle ==
    [pc |-> "idle", iter |-> 0, tcs |-> << >>, ti |-> 0, prior |-> None,
     keep |-> FALSE, hist |-> << >>, end |-> "none", flagged |-> FALSE]

\* the id of call j of the completion of iteration i (ids given by the
\* model, taken to be distinct and numbered in request order)
TcId(i, j) == (i - 1) * MaxCalls + j

\* the turns of conversation_history: the user turn (line 85), an assistant
\* turn with tool calls (lines 100-105), a tool-result turn (lines 154-159),
\* the final assistant turn (lines 163-164)
LoopUser == [role |-> "user", tcs |-> << >>, id |-> 0, name |-> 0,
             ok |-> TRUE, err |-> "none"]
LoopCalls(i, tcs) ==
    [role |-> "assistant",
     tcs |-> [j \in 1..Len(tcs) |-> [id |-> TcId(i, j), name |-> tcs[j]]],
     id |-> 0, name |-> 0, ok |-> TRUE, err |-> "none"]
LoopFinal == [role |-> "assistant", tcs |-> << >>, id |-> 0, name |-> 0,
              ok |-> TRUE, err |-> "none"]

\* a plausible slip: the result turn does not name its call
LoopResultUnnamed(i, j, name, ok, err) ==
    [role |-> "tool_result", tcs |-> << >>, id |-> 0, name |-> 0,
     ok |-> ok, err |-> err]

\* lines 121-159: the ToolResult of call j of iteration i and its turn
LoopResult(i, j, name, ok, err) ==
    [role |-> "tool_result", tcs |-> << >>, id |-> TcId(i, j), name |-> name,
     ok |-> ok, err |-> err]

\* conversation_history.append
Keep(ag, turn) == IF ag.keep THEN [ag EXCEPT !.hist = Append(@, turn)] ELSE ag

\* a plausible slip: the loop condition is iteration <= max_iterations
NextIterationOneMore(ag) ==
    IF ag.iter <= LoopMaxIterations
    THEN [ag EXCEPT !.pc = "llm", !.iter = @ + 1, !.tcs = << >>, !.ti = 0,
                    !.prior = None]
    ELSE [ag EXCEPT !.pc = "done", !.tcs = << >>, !.ti = 0, !.prior = None,
                    !.end = "bound"]

\* lines 89-92 and 166: the loop condition and the increment, then generate;
\* at the bound the loop is left and run ends, nothing more being yielded
NextIteration(ag) ==
    IF ag.iter < LoopMaxIterations
    THEN [ag EXCEPT !.pc = "llm", !.iter = @ + 1, !.tcs = << >>, !.ti = 0,
                    !.prior = None]
    ELSE [ag EXCEPT !.pc = "done", !.tcs = << >>, !.ti = 0, !.prior = None,
                    !.end = "bound"]

\* lines 108-159 from call i of the turn on, up to the next suspension: a
\* call whose cached result is truthy is answered from the cache, a call to
\* an unknown tool gets an error result, any other call suspends in
\* tool.execute. Returns the agent and the last call answered on the way.
RECURSIVE ProcessCalls(_, _, _, _, _)
ProcessCalls(a, ag, i, cache, last) ==
    IF i > Len(ag.tcs) THEN [ag |-> NextIteration(ag), last |-> last]
    ELSE LET k == ag.tcs[i]
         IN IF k = UnknownTool
            THEN ProcessCalls(a, Keep(ag, LoopResult(ag.iter, i, k, FALSE, "not found")),
                              i + 1, cache, last)
            ELSE IF CacheHit(cache, k)
            THEN ProcessCalls(a, Keep(ag, LoopResult(ag.iter, i, k, TRUE, "none")),
                     i + 1, cache,
                     [agent |-> a, key |-> k, executed |-> FALSE,
                      result |-> GetToolResult(cache, k),
                      prior |-> GetToolResult(cache, k)])
            ELSE [ag |-> [ag EXCEPT !.pc = "exec", !.ti = i,
                                    !.prior = GetToolResult(cache, k)],
                  last |-> last]

\* run is called (lines 81-95)
AgentRun(a, keep) ==
    /\ agents[a].pc = "idle"
    /\ agents' = [agents EXCEPT ![a] =
                    NextIteration(Keep([AgentIdle EXCEPT !.keep = keep], LoopUser))]
    /\ UNCHANGED <<toolCache, lastCall, poolVars, orchVars, cleanVars, ttlVars, hashVars, resVars, routerVars>>

\* generate returns a completion (lines 91-166)
LlmReturns(a, tcs) ==
    /\ agents[a].pc = "llm"
    /\ IF tcs = << >>
       THEN /\ agents' = [agents EXCEPT ![a] =
                            [Keep(agents[a], LoopFinal) EXCEPT !.pc = "done",
                                                               !.end = "final"]]
            /\ UNCHANGED lastCall
       ELSE LET r == ProcessCalls(a, [Keep(agents[a], LoopCalls(agents[a].iter, tcs))
                                         EXCEPT !.tcs = tcs], 1,
                                  toolCache, lastCall)
            IN /\ agents' = [agents EXCEPT ![a] = r.ag]
               /\ lastCall' = r.last
    /\ UNCHANGED <<toolCache, poolVars, orchVars, cleanVars, ttlVars, hashVars, resVars, routerVars>>

\* generate raises: the exception leaves run
LlmRaises(a) ==
    /\ agents[a].pc = "llm"
    /\ agents' = [agents EXCEPT ![a].pc = "done", ![a].end = "raised"]
    /\ UNCHANGED <<toolCache, lastCall, poolVars, orchVars, cleanVars, ttlVars, hashVars, resVars, routerVars>>

\* tool.execute returns v (lines 130-137): the result is cached, then the
\* remaining calls of the turn are gone through
ExecReturns(a, v) ==
    /\ agents[a].pc = "exec"
    /\ LET k == agents[a].tcs[agents[a].ti]
           cache == CacheToolResult(toolCache, k, v)
           done == [agent |-> a, key |-> k, executed |-> TRUE, result |-> v,
                    prior |-> agents[a].prior]
           r == ProcessCalls(a, Keep(agents[a],
                                 LoopResult(agents[a].iter, agents[a].ti, k, TRUE, "none")),
                             agents[a].ti + 1, cache, done)
       IN /\ toolCache' = cache
          /\ agents' = [agents EXCEPT ![a] = r.ag]
          /\ lastCall' = r.last
    /\ UNCHANGED <<poolVars, orchVars, cleanVars, ttlVars, hashVars, resVars, routerVars>>

\* tool.execute raises (lines 138-144): a failed result, nothing is cached
ExecRaises(a) ==
    /\ agents[a].pc = "exec"
    /\ LET k == agents[a].tcs[agents[a].ti]
           done == [agent |-> a, key |-> k, executed |-> TRUE, result |-> None,
                    prior |-> agents[a].prior]
           r == ProcessCalls(a, Keep(agents[a],
                                 LoopResult(agents[a].iter, agents[a].ti, k, FALSE, "raised")),
                             agents[a].ti + 1, toolCache, done)
       IN /\ agents' = [agents EXCEPT ![a] = r.ag]
          /\ lastCall' = r.last
    /\ UNCHANGED <<toolCache, poolVars, orchVars, cleanVars, ttlVars, hashVars, resVars, routerVars>>

\* the store drops an entry whose TTL (registry.py line 58) has run out
ExpireEntry(k) ==
    /\ toolCache[k] # None
    /\ toolCache' = [toolCache EXCEPT ![k] = None]
    /\ UNCHANGED <<agents, lastCall, poolVars, orchVars, cleanVars, ttlVars, hashVars, resVars, routerVars>>

(***************************************************************************)
(* registry.py: generate_tool_hash                                         *)
(* An argument mapping is a dict: its items in insertion order, the names  *)
(* pairwise distinct. Names are numbered in their sort order.              *)
(***************************************************************************)
ArgNames == 1..MaxArgs
ArgValues == {"x", "y"}

\* the item inserted into the items sorted by name
RECURSIVE InsertByName(_, _)
InsertByName(items, it) ==
    IF items = << >> THEN <<it>>
    ELSE IF it[1] <= Head(items)[1] THEN <<it>> \o items
    ELSE <<Head(items)>> \o InsertByName(Tail(items), it)

RECURSIVE SortByName(_)
SortByName(items) ==
    IF items = << >> THEN << >>
    ELSE InsertByName(SortByName(Tail(items)), Head(items))

\* a plausible slip: json.dumps(arguments), without sort_keys
JsonDumpsUnsorted(arguments) == <<"json", arguments>>

\* line 73: json.dumps(arguments, sort_keys=True), the items written in the
\* order of their names
JsonDumps(arguments) == <<"json", SortByName(arguments)>>

\* lines 74-75: the digest of the four parts joined; equal joined texts have
\* equal digests, and the digest is taken to tell different texts apart
GenerateToolHash(c) ==
    <<"sha256", c.role, c.tool, JsonDumps(c.arguments), c.context>>

\* the argument mappings over ArgNames
ArgMappings ==
    {m \in SeqsUpTo(ArgNames \X ArgValues, MaxArgs) :
        \A i, j \in 1..Len(m) : i # j => m[i][1] # m[j][1]}

HashCalls ==
    [role : {"ReconAgentAgent", "OtherAgent"}, tool : {"nmap", "whois"},
     arguments : ArgMappings, context : {"", "p"}]

NotHashed == [ran |-> FALSE, keys |-> << >>]

\* generate_tool_hash is applied to the two calls
RunHash ==
    /\ ~hashOut.ran
    /\ hashOut' = [ran |-> TRUE,
                   keys |-> <<GenerateToolHash(hashIn[1]), GenerateToolHash(hashIn[2])>>]
    /\ UNCHANGED <<hashIn, poolVars, loopVars, orchVars, cleanVars, ttlVars, resVars, routerVars>>

(***************************************************************************)
(* orchestrator.py: the transcript and _cleanup_pending_calls              *)
(***************************************************************************)
UserTurn == [role |-> "user", tcs |-> << >>, id |-> 0]
\* an assistant turn that carries text only
TextTurn == [role |-> "assistant", tcs |-> << >>, id |-> 0]
\* an assistant turn that carries tool calls (their ids, in request order)
CallsTurn(ids) == [role |-> "assistant", tcs |-> ids, id |-> 0]
\* a tool-result turn for the call with this id
ToolTurn(id) == [role |-> "tool", tcs |-> << >>, id |-> id]

Front(q) == SubSeq(q, 1, Len(q) - 1)

\* a plausible slip: the loop stops at a user turn without removing it
RECURSIVE CleanupKeepingUser(_)
CleanupKeepingUser(msgs) ==
    IF msgs = << >> THEN msgs
    ELSE LET last == msgs[Len(msgs)]
         IN IF last.role = "assistant" /\ last.tcs # << >>
            THEN CleanupKeepingUser(Front(msgs))
            ELSE IF last.role = "tool" THEN CleanupKeepingUser(Front(msgs))
            ELSE msgs

\* _cleanup_pending_calls (lines 364-376)
RECURSIVE CleanupPendingCalls(_)
CleanupPendingCalls(msgs) ==
    IF msgs = << >> THEN msgs
    ELSE LET last == msgs[Len(msgs)]
         IN IF last.role = "assistant" /\ last.tcs # << >>
            THEN CleanupPendingCalls(Front(msgs))
            ELSE IF last.role = "tool" THEN CleanupPendingCalls(Front(msgs))
            ELSE IF last.role = "user" THEN Front(msgs)
            ELSE msgs

\* the turns of the transcripts handed to _cleanup_pending_calls
TurnKinds == {UserTurn, TextTurn, CallsTurn(<<1>>), CallsTurn(<<1, 2>>),
              ToolTurn(1), ToolTurn(2)}

NotRun == [ran |-> FALSE, msgs |-> << >>]

\* _cleanup_pending_calls runs on the transcript
RunCleanup ==
    /\ ~cleanOut.ran
    /\ cleanOut' = [ran |-> TRUE, msgs |-> CleanupPendingCalls(cleanIn)]
    /\ UNCHANGED <<cleanIn, poolVars, loopVars, orchVars, ttlVars, hashVars, resVars, routerVars>>

(***************************************************************************)
(* orchestrator.py: CrewOrchestrator.run and cancel                        *)
(***************************************************************************)
\* response.content: none, or a text
Contents == {"", "t"}
\* what the finish tool returns
FinishResults == {"", "f"}
\* the tools a call can name: the terminal finish tool, the pool-spawn tool,
\* an ordinary tool, and a name that is not among crew_tools
ToolKinds == {"finish", "spawn", "other", "unknown"}

\* the id of call j of the completion of iteration i (ids given by the model,
\* taken to be distinct and numbered in request order)
CallId(i, j) == (i - 1) * MaxCalls + j

\* raised (history): the tool's execute raised
NewCall(i, j, tool) ==
    [id |-> CallId(i, j), tool |-> tool, st |-> "run", ord |-> 0, val |-> "",
     raised |-> FALSE]

OrchIdle ==
    [state |-> "idle", pc |-> "idle", run |-> 0, iter |-> 0, report |-> "",
     hasFinish |-> FALSE, spawned |-> 0, content |-> "", end |-> "none",
     finish |-> "none", ctx |-> "", fval |-> "", afterCancel |-> FALSE,
     errEv |-> 0, compEv |-> 0, cleaned |-> FALSE, bfail |-> FALSE,
     llmraised |-> FALSE]

Settled(cs) == \A j \in 1..Len(cs) : cs[j].st # "run"

\* the position of the call that settled n-th
NthSettled(cs, n) == CHOOSE j \in 1..Len(cs) : cs[j].ord = n

\* a plausible slip: the results are taken in the order the executions settle
GatherInCompletionOrder(cs) == [n \in 1..Len(cs) |-> cs[NthSettled(cs, n)]]

\* lines 263-265: asyncio.gather returns the results in the order of the
\* awaitables it was given, whatever order they settled in
GatherResults(cs) == cs

\* lines 268-273: one tool turn per result, in the order of the results
ToolTurns(rs) == [n \in 1..Len(rs) |-> ToolTurn(rs[n].id)]

\* lines 276-277: the content of the last successful finish among the
\* results, or the report as it was
RECURSIVE ReportAfter(_, _, _)
ReportAfter(rs, n, report) ==
    IF n > Len(rs) THEN report
    ELSE ReportAfter(rs, n + 1,
             IF rs[n].tool = "finish" /\ rs[n].st = "ok" THEN rs[n].val ELSE report)

\* pool.get_workers() (worker_pool.py lines 324-327): the records listed in
\* the registry for the project
GetWorkers == crewReg

\* a plausible slip: the text is always taken as the report
UseFinishNever(workers, hasFinish) == FALSE

\* lines 300-340: finish is invoked when the pool reports workers and a
\* finish tool is among crew_tools
UseFinish(workers, hasFinish) == workers # {} /\ hasFinish

\* line 342-344: the loop was left normally; the state is COMPLETE and the
\* complete event is being broadcast
Completed(o, report, end) ==
    [o EXCEPT !.state = "complete", !.pc = "completing", !.report = report,
              !.end = end]

\* lines 347-349: an exception reached the handler of run(); the state is
\* ERROR and the error event is being broadcast
Failing(o) == [o EXCEPT !.state = "error", !.pc = "failing"]

\* run is called (lines 101-104)
RunCall ==
    /\ orch.pc \in {"idle", "done"}
    /\ orch.run < MaxRuns
    /\ orch' = [OrchIdle EXCEPT !.state = "running", !.pc = "start",
                                !.run = orch.run + 1]
    /\ UNCHANGED <<messages, calls, crewReg, canc, poolVars, loopVars, cleanVars, ttlVars, hashVars, resVars, routerVars>>

\* lines 106-132: a pool is constructed, the transcript starts with the user
\* turn, the first completion is requested
RunBegin(hasFinish) ==
    /\ orch.pc = "start"
    /\ orch' = [orch EXCEPT !.pc = "llm", !.iter = 1, !.hasFinish = hasFinish,
                            !.spawned = 0]
    /\ messages' = <<UserTurn>>
    /\ calls' = << >>
    /\ UNCHANGED <<crewReg, canc, poolVars, loopVars, cleanVars, ttlVars, hashVars, resVars, routerVars>>

\* lines 147-152: a completion with tool calls and text: the text is
\* broadcast and yielded as thinking
CompletionWithCalls(content, tools) ==
    /\ orch.pc = "llm"
    /\ tools # << >>
    /\ calls' = [j \in 1..Len(tools) |-> NewCall(orch.iter, j, tools[j])]
    /\ IF content # ""
       THEN /\ orch' = [orch EXCEPT !.pc = "think", !.content = content]
            /\ UNCHANGED messages
       ELSE /\ orch' = [orch EXCEPT !.pc = "gather", !.content = content]
            /\ messages' = Append(messages,
                               CallsTurn([j \in 1..Len(tools) |-> CallId(orch.iter, j)]))
    /\ UNCHANGED <<crewReg, canc, poolVars, loopVars, cleanVars, ttlVars, hashVars, resVars, routerVars>>

\* lines 153-265: the text turn and the tool-call turn are appended and the
\* executions are started together
FanOut ==
    /\ orch.pc = "think"
    /\ orch' = [orch EXCEPT !.pc = "gather"]
    /\ messages' = messages \o <<TextTurn, CallsTurn([j \in 1..Len(calls) |-> calls[j].id])>>
    /\ UNCHANGED <<calls, crewReg, canc, poolVars, loopVars, cleanVars, ttlVars, hashVars, resVars, routerVars>>

\* execute_tool_call (lines 205-260) settles for call j: an unknown name and
\* an exception give an error result; the pool-spawn tool, when it succeeds,
\* has spawned a worker, whose record spawn wrote to the registry
ToolSettles(j, ok, val) ==
    /\ orch.pc = "gather"
    /\ calls[j].st = "run"
    /\ calls[j].tool = "unknown" => ~ok
    /\ (calls[j].tool # "finish" \/ ~ok) => val = ""
    /\ calls' = [calls EXCEPT ![j].st = IF ok THEN "ok" ELSE "err",
                              ![j].val = val,
                              ![j].raised = ~ok /\ calls[j].tool # "unknown",
                              ![j].ord = 1 + Cardinality({n \in 1..Len(calls) : calls[n].st # "run"})]
    /\ IF calls[j].tool = "spawn" /\ ok
       THEN /\ crewReg' = crewReg \cup {orch.spawned}
            /\ orch' = [orch EXCEPT !.spawned = @ + 1]
       ELSE UNCHANGED <<crewReg, orch>>
    /\ UNCHANGED <<messages, canc, poolVars, loopVars, cleanVars, ttlVars, hashVars, resVars, routerVars>>

\* lines 267-291: every execution has settled; the tool turns are appended,
\* and the loop ends when a finish result left a report
FanIn ==
    /\ orch.pc = "gather"
    /\ Settled(calls)
    /\ LET rs == GatherResults(calls)
           report == ReportAfter(rs, 1, orch.report)
       IN /\ messages' = messages \o ToolTurns(rs)
          /\ orch' = IF report # "" THEN Completed(orch, report, "finish")
                     ELSE IF orch.iter < OrchMaxIterations
                     THEN [orch EXCEPT !.pc = "llm", !.iter = @ + 1]
                     ELSE Completed(orch, report, "bound")
    /\ UNCHANGED <<calls, crewReg, canc, poolVars, loopVars, cleanVars, ttlVars, hashVars, resVars, routerVars>>

\* lines 292-340: a completion without tool calls
CompletionWithoutCalls(content) ==
    /\ orch.pc = "llm"
    /\ messages' = IF content # "" THEN Append(messages, TextTurn) ELSE messages
    /\ orch' = IF GetWorkers # {}
               THEN IF UseFinish(GetWorkers, orch.hasFinish)
                    THEN [orch EXCEPT !.pc = "autofinish", !.content = content,
                                      !.finish = "invoked", !.ctx = content]
                    ELSE Completed([orch EXCEPT !.content = content], content, "notool")
               ELSE Completed([orch EXCEPT !.content = content], content, "notool")
    /\ UNCHANGED <<calls, crewReg, canc, poolVars, loopVars, cleanVars, ttlVars, hashVars, resVars, routerVars>>

\* lines 309-325: the forced finish returns its text
AutoFinishReturns(v) ==
    /\ orch.pc = "autofinish"
    /\ orch' = Completed([orch EXCEPT !.finish = "returned", !.fval = v], v, "notool")
    /\ UNCHANGED <<messages, calls, crewReg, canc, poolVars, loopVars, cleanVars, ttlVars, hashVars, resVars, routerVars>>

\* lines 326-333: the forced finish raises; an error event is broadcast and
\* yielded, and the loop ends with the report still empty
AutoFinishRaises ==
    /\ orch.pc = "autofinish"
    /\ orch' = Completed([orch EXCEPT !.finish = "raised", !.errEv = @ + 1],
                         orch.report, "notool")
    /\ UNCHANGED <<messages, calls, crewReg, canc, poolVars, loopVars, cleanVars, ttlVars, hashVars, resVars, routerVars>>

\* lines 132-136 and 347-348: generate raises
CompletionRaises ==
    /\ orch.pc = "llm"
    /\ orch' = Failing([orch EXCEPT !.end = "error", !.llmraised = TRUE])
    /\ UNCHANGED <<messages, calls, crewReg, canc, poolVars, loopVars, cleanVars, ttlVars, hashVars, resVars, routerVars>>

\* lines 344-345 and 353-355: the complete event is broadcast and yielded,
\* and the finally runs cancel_all on the pool
CompleteBroadcast ==
    /\ orch.pc = "completing"
    /\ orch' = [orch EXCEPT !.pc = "done", !.compEv = @ + 1, !.cleaned = TRUE]
    /\ UNCHANGED <<messages, calls, crewReg, canc, poolVars, loopVars, cleanVars, ttlVars, hashVars, resVars, routerVars>>

\* lines 349-355: the error event is broadcast and yielded, and the finally
\* runs cancel_all on the pool
ErrorBroadcast ==
    /\ orch.pc = "failing"
    /\ orch' = [orch EXCEPT !.pc = "done", !.errEv = @ + 1, !.cleaned = TRUE]
    /\ UNCHANGED <<messages, calls, crewReg, canc, poolVars, loopVars, cleanVars, ttlVars, hashVars, resVars, routerVars>>

(***************************************************************************)
(* orchestrator.py: broadcast (lines 51-60) raises. group_send is awaited  *)
(* with no handler around it, so the exception is raised at the call site. *)
(***************************************************************************)
\* line 103, before the try: run() ends by the exception; the state stays
\* RUNNING, no pool was constructed and the finally is not in force
StartBroadcastRaises ==
    /\ orch.pc = "start"
    /\ orch' = [orch EXCEPT !.pc = "done", !.end = "raised", !.bfail = TRUE]
    /\ UNCHANGED <<messages, calls, crewReg, canc, poolVars, loopVars, cleanVars, ttlVars, hashVars, resVars, routerVars>>

\* line 143: the tokens event of a completion
TokensBroadcastRaises ==
    /\ orch.pc = "llm"
    /\ orch' = Failing([orch EXCEPT !.end = "error", !.bfail = TRUE])
    /\ UNCHANGED <<messages, calls, crewReg, canc, poolVars, loopVars, cleanVars, ttlVars, hashVars, resVars, routerVars>>

\* line 151: the thinking event of a completion with tool calls
ThinkingBroadcastRaises ==
    /\ orch.pc = "think"
    /\ orch' = Failing([orch EXCEPT !.end = "error", !.bfail = TRUE])
    /\ UNCHANGED <<messages, calls, crewReg, canc, poolVars, loopVars, cleanVars, ttlVars, hashVars, resVars, routerVars>>

\* line 211, before the try of execute_tool_call: the exception leaves the
\* execution, and asyncio.gather raises it into run()
ToolCallBroadcastRaises(j) ==
    /\ orch.pc = "gather"
    /\ calls[j].st = "run"
    /\ orch' = Failing([orch EXCEPT !.end = "error", !.bfail = TRUE])
    /\ UNCHANGED <<messages, calls, crewReg, canc, poolVars, loopVars, cleanVars, ttlVars, hashVars, resVars, routerVars>>

\* line 237, inside the try of execute_tool_call, after the tool returned
\* val: the handler of line 246 takes the exception for the tool's and makes
\* the result an error result; when its own broadcast (line 253) raises
\* again the exception leaves the execution as at line 211
ToolResultBroadcastRaises(j, val, again) ==
    /\ orch.pc = "gather"
    /\ calls[j].st = "run"
    /\ calls[j].tool # "unknown"
    /\ calls[j].tool # "finish" => val = ""
    /\ calls' = [calls EXCEPT ![j].st = "err", ![j].val = val,
                              ![j].ord = 1 + Cardinality({n \in 1..Len(calls) : calls[n].st # "run"})]
    /\ crewReg' = IF calls[j].tool = "spawn" THEN crewReg \cup {orch.spawned}
                  ELSE crewReg
    /\ LET o == [orch EXCEPT !.bfail = TRUE,
                             !.spawned = IF calls[j].tool = "spawn" THEN @ + 1 ELSE @]
       IN orch' = IF again THEN Failing([o EXCEPT !.end = "error"]) ELSE o
    /\ UNCHANGED <<messages, canc, poolVars, loopVars, cleanVars, ttlVars, hashVars, resVars, routerVars>>

\* line 253, in the handler of execute_tool_call, after the tool's execute
\* raised: the exception of the broadcast leaves the execution without a
\* result, and asyncio.gather raises it into run()
ToolErrorBroadcastRaises(j) ==
    /\ orch.pc = "gather"
    /\ calls[j].st = "run"
    /\ calls[j].tool # "unknown"
    /\ calls' = [calls EXCEPT ![j].raised = TRUE]
    /\ orch' = Failing([orch EXCEPT !.end = "error", !.bfail = TRUE])
    /\ UNCHANGED <<messages, crewReg, canc, poolVars, loopVars, cleanVars, ttlVars, hashVars, resVars, routerVars>>

\* line 302: the thinking event before the forced finish, after the text
\* turn was appended
AutoFinishBroadcastRaises(content) ==
    /\ orch.pc = "llm"
    /\ GetWorkers # {}
    /\ messages' = IF content # "" THEN Append(messages, TextTurn) ELSE messages
    /\ orch' = Failing([orch EXCEPT !.content = content, !.end = "error",
                                    !.bfail = TRUE])
    /\ UNCHANGED <<calls, crewReg, canc, poolVars, loopVars, cleanVars, ttlVars, hashVars, resVars, routerVars>>

\* line 344: the complete event; the handler of line 347 sets ERROR
CompleteBroadcastRaises ==
    /\ orch.pc = "completing"
    /\ orch' = Failing([orch EXCEPT !.bfail = TRUE])
    /\ UNCHANGED <<messages, calls, crewReg, canc, poolVars, loopVars, cleanVars, ttlVars, hashVars, resVars, routerVars>>

\* line 349, in the handler: no error event; the finally runs, and run()
\* ends by the exception
ErrorBroadcastRaises ==
    /\ orch.pc = "failing"
    /\ orch' = [orch EXCEPT !.pc = "done", !.cleaned = TRUE, !.bfail = TRUE]
    /\ UNCHANGED <<messages, calls, crewReg, canc, poolVars, loopVars, cleanVars, ttlVars, hashVars, resVars, routerVars>>

\* the task that drives run() is cancelled while run() is suspended at one of
\* its awaits: CancelledError is not an Exception, so the handler of line 347
\* is passed over and the state is left as it was; inside the try (from line
\* 128) the finally of lines 353-355 runs
RunCancelled ==
    /\ orch.pc \in {"start", "llm", "think", "gather", "autofinish",
                    "completing", "failing"}
    /\ orch' = [orch EXCEPT !.pc = "done", !.end = "cancelled",
                            !.cleaned = orch.pc # "start"]
    /\ UNCHANGED <<messages, calls, crewReg, canc, poolVars, loopVars, cleanVars, ttlVars, hashVars, resVars, routerVars>>

\* cancel (lines 357-362) with a pool: cancel_all is awaited first
CancelCall ==
    /\ canc = "idle"
    /\ orch.run > 0 /\ orch.pc # "start"
    /\ canc' = "cancel_all"
    /\ UNCHANGED <<orch, messages, calls, crewReg, poolVars, loopVars, cleanVars, ttlVars, hashVars, resVars, routerVars>>

\* cancel, lines 361-362 (the whole of cancel when there is no pool yet):
\* the transcript is repaired and the state set to IDLE; a run() that is
\* suspended is not stopped
CancelReturns ==
    /\ \/ canc = "cancel_all"
       \/ canc = "idle" /\ (orch.run = 0 \/ orch.pc = "start")
    /\ canc' = "idle"
    /\ messages' = CleanupPendingCalls(messages)
    /\ orch' = [orch EXCEPT !.state = "idle", !.afterCancel = TRUE]
    /\ UNCHANGED <<calls, crewReg, poolVars, loopVars, cleanVars, ttlVars, hashVars, resVars, routerVars>>

(***************************************************************************)
(* worker_pool.py: the result of a worker whose loop completed (lines      *)
(* 134-204). A Python string is the sequence of its pieces, "" the empty   *)
(* sequence; None, which is as false as "", is written as "" too.          *)
(***************************************************************************)
MaxStream == 4
MaxSteps == 2

NoText == << >>
NoFindings == <<"No findings.">>
Newline == <<"\n">>

\* the messages BaseAgent.run yields (base_agent.py): an assistant message
\* with tool calls (lines 100-105, content `response.content or ""`), a
\* tool_result message per call (lines 154-159, content `result or error`),
\* the final assistant message (lines 162-165, content as the model gave it)
YieldCalls(content) == [role |-> "assistant", calls |-> TRUE, content |-> content]
YieldResult(content) == [role |-> "tool_result", calls |-> FALSE, content |-> content]
YieldFinal(content) == [role |-> "assistant", calls |-> FALSE, content |-> content]

Yields ==
    {YieldCalls(c) : c \in {NoText, <<"a1">>}}
        \cup {YieldResult(c) : c \in {NoText, <<"r1">>}}
        \cup {YieldFinal(c) : c \in {NoText, <<"a1">>, <<"a2">>}}

\* the order run yields them in: tool results follow a message with tool
\* calls, the final message is the last one, and at the iteration bound the
\* stream ends after a tool result
IsStream(ms) ==
    /\ ms # << >> => ms[1].role = "assistant"
    /\ \A n \in 1..Len(ms) :
          /\ (ms[n].role = "tool_result") =>
                (n > 1 /\ (ms[n - 1].calls \/ ms[n - 1].role = "tool_result"))
          /\ ms[n].calls => (n < Len(ms) /\ ms[n + 1].role = "tool_result")
          /\ (ms[n].role = "assistant" /\ ~ms[n].calls) => n = Len(ms)

Streams == {ms \in SeqsUpTo(Yields, MaxStream) : IsStream(ms)}

\* a plan step: its status and its result text; the description is the same
\* text for every step
StepStatuses == {"complete", "skip", "fail", "pending"}
Steps == [status : StepStatuses, result : {NoText, <<"x">>}]

\* getattr(worker_runtime, "plan", None), line 183
NoPlan == [present |-> FALSE, steps |-> << >>]
Plans == {NoPlan} \cup {[present |-> TRUE, steps |-> st] : st \in SeqsUpTo(Steps, MaxSteps)}

\* lines 171-173, over the whole stream: the content of the last message
\* that has content and no tool calls
RECURSIVE FinalResponse(_, _, _)
FinalResponse(ms, n, final) ==
    IF n > Len(ms) THEN final
    ELSE FinalResponse(ms, n + 1,
             IF ms[n].content # NoText /\ ~ms[n].calls THEN ms[n].content ELSE final)

\* lines 192-196
StatusMarker(status) ==
    CASE status = "complete" -> "v"
      [] status = "skip" -> "o"
      [] status = "fail" -> "x"
      [] OTHER -> "."

\* line 198
SummaryLine(step) == <<StatusMarker(step.status), " ", "description", ": ">> \o step.result

\* "\n".join, line 199
RECURSIVE JoinLines(_, _)
JoinLines(steps, n) ==
    IF n > Len(steps) THEN NoText
    ELSE IF n = Len(steps) THEN SummaryLine(steps[n])
    ELSE SummaryLine(steps[n]) \o Newline \o JoinLines(steps, n + 1)

StepHasResult(step) == step.result # NoText

\* lines 182-199
PlanSummary(plan) ==
    IF plan.present /\ plan.steps # << >>
    THEN JoinLines(SelectSeq(plan.steps, StepHasResult), 1)
    ELSE NoText

\* Python's `a or b`
Or(a, b) == IF a # NoText THEN a ELSE b

\* line 204
WorkerResult(plan, ms) ==
    Or(Or(PlanSummary(plan), FinalResponse(ms, 1, NoText)), NoFindings)

NoResult == [ran |-> FALSE, result |-> NoText]

RunResult ==
    /\ ~resOut.ran
    /\ resOut' = [ran |-> TRUE, result |-> WorkerResult(resIn.plan, resIn.stream)]
    /\ UNCHANGED <<resIn, poolVars, loopVars, orchVars, cleanVars, ttlVars, hashVars, routerVars>>

(***************************************************************************)
(* llm/router.py: ModelRouter                                              *)
(***************************************************************************)
\* TIERS (lines 17-33): the models of each tier, in the order of the list
TierModels(tier) ==
    CASE tier = "reasoning" ->
            <<"gpt-4o", "claude-3-5-sonnet-20240620", "gemini-1.5-pro">>
      [] tier = "data_processing" ->
            <<"gpt-4o-mini", "claude-3-haiku-20240307", "gemini-1.5-flash">>
      [] tier = "summary" -> <<"gpt-4o-mini", "gemini-1.5-flash">>

TierNames == {"reasoning", "data_processing", "summary"}

\* a name that is not a key of TIERS
OtherTier == "other"

\* the values of the tier argument: a tier name, a name that is no tier, and
\* None (the default of the parameter)
TierArgs == TierNames \cup {OtherTier, None}

\* a model name that is in no tier
OtherModel == "other-model"

ModelNames ==
    UNION {{TierModels(t)[n] : n \in 1..Len(TierModels(t))} : t \in TierNames}
        \cup {OtherModel}

\* _circuit_breakers: a dict, a model being unset until a report or a reset
\* writes it
Unset == "unset"
Open == "open"
Closed == "closed"

\* _circuit_breakers.get(m, False)
IsOpen(breakers, m) == breakers[m] = Open

\* __init__ (lines 35-37)
NewRouter(default_tier) ==
    [default_tier |-> default_tier, breakers |-> [m \in ModelNames |-> Unset]]

\* lines 41-43
TargetTier(r, tier) ==
    LET target_tier == IF tier = None THEN r.default_tier ELSE tier
    IN IF target_tier \notin TierNames THEN r.default_tier ELSE target_tier

\* line 48
AvailableModels(r, models) ==
    LET closed(m) == ~IsOpen(r.breakers, m)
    IN SelectSeq(models, closed)

\* a plausible slip: the tier's first model is returned whatever its breaker
GetModelUnfiltered(r, tier) ==
    LET target_tier == TargetTier(r, tier)
    IN IF target_tier \notin TierNames
       THEN [router |-> r, raised |-> TRUE, model |-> "", reset |-> FALSE]
       ELSE [router |-> r, raised |-> FALSE, model |-> TierModels(target_tier)[1],
             reset |-> FALSE]

\* get_model (lines 39-58): the router after the call, whether the call
\* raised (KeyError at line 45, for a default_tier that is no tier), the
\* model returned, and whether the breakers of the tier were reset
GetModel(r, tier) ==
    LET target_tier == TargetTier(r, tier)
    IN IF target_tier \notin TierNames
       THEN [router |-> r, raised |-> TRUE, model |-> "", reset |-> FALSE]
       ELSE LET models == TierModels(target_tier)
                available_models == AvailableModels(r, models)
            IN IF available_models = << >>
               THEN [router |-> [r EXCEPT !.breakers =
                                    [m \in ModelNames |->
                                        IF \E n \in 1..Len(models) : models[n] = m
                                        THEN Closed ELSE r.breakers[m]]],
                     raised |-> FALSE, model |-> models[1], reset |-> TRUE]
               ELSE [router |-> r, raised |-> FALSE, model |-> available_models[1],
                     reset |-> FALSE]

NoRouterCall == [op |-> "none", tier |-> None, model |-> "", raised |-> FALSE,
                 reset |-> FALSE]

GetModelCall(tier) ==
    /\ LET g == GetModel(router, tier)
       IN /\ router' = g.router
          /\ routerCall' = [op |-> "get_model", tier |-> tier, model |-> g.model,
                            raised |-> g.raised, reset |-> g.reset]
    /\ UNCHANGED <<poolVars, loopVars, orchVars, cleanVars, ttlVars, hashVars, resVars>>

\* report_failure (lines 60-63)
ReportFailure(model) ==
    /\ router' = [router EXCEPT !.breakers[model] = Open]
    /\ routerCall' = [NoRouterCall EXCEPT !.op = "report_failure", !.model = model]
    /\ UNCHANGED <<poolVars, loopVars, orchVars, cleanVars, ttlVars, hashVars, resVars>>

\* report_success (lines 65-69)
ReportSuccess(model) ==
    /\ router' = IF IsOpen(router.breakers, model)
                 THEN [router EXCEPT !.breakers[model] = Closed]
                 ELSE router
    /\ routerCall' = [NoRouterCall EXCEPT !.op = "report_success", !.model = model]
    /\ UNCHANGED <<poolVars, loopVars, orchVars, cleanVars, ttlVars, hashVars, resVars>>

(***************************************************************************)
(* Specifications                                                          *)
(***************************************************************************)
InitPool ==
    /\ tasks = << >>
    /\ poolTasks = [id \in WorkerIds |-> 0]
    /\ nextId = 0
    /\ regRec = [id \in WorkerIds |-> NoRec]
    /\ workerList = << >>
    /\ wf = WfIdle
    /\ lastOp = "other"
    /\ cc = CcIdle

InitLoop ==
    /\ toolCache = [k \in CacheKeys |-> None]
    /\ agents = [a \in AgentIds |-> AgentIdle]
    /\ lastCall = NoCall

InitOrch ==
    /\ orch = OrchIdle
    /\ messages = << >>
    /\ calls = << >>
    /\ crewReg = {}
    /\ canc = "idle"

InitClean ==
    /\ cleanIn = << >>
    /\ cleanOut = NotRun

\* no key is stored; only SpecRegistry follows the keys' lifetimes
InitTtl ==
    /\ recTtl = [id \in WorkerIds |-> 0]
    /\ listTtl = 0

NoHashCall == [role |-> "", tool |-> "", arguments |-> << >>, context |-> ""]

InitNoHash ==
    /\ hashIn = <<NoHashCall, NoHashCall>>
    /\ hashOut = NotHashed

InitNoRes ==
    /\ resIn = [plan |-> NoPlan, stream |-> << >>]
    /\ resOut = NoResult
    /\ router = NewRouter("reasoning")
    /\ routerCall = NoRouterCall

\* a router constructed with any default_tier
InitRouter ==
    /\ InitPool
    /\ InitLoop
    /\ InitOrch
    /\ InitClean
    /\ InitTtl
    /\ InitNoHash
    /\ resIn = [plan |-> NoPlan, stream |-> << >>]
    /\ resOut = NoResult
    /\ \E default_tier \in TierNames \cup {OtherTier} : router = NewRouter(default_tier)
    /\ routerCall = NoRouterCall

\* every bounded plan and stream, before the worker takes its result
InitResult ==
    /\ InitPool
    /\ InitLoop
    /\ InitOrch
    /\ InitClean
    /\ InitTtl
    /\ InitNoHash
    /\ resIn \in [plan : Plans, stream : Streams]
    /\ resOut = NoResult
    /\ router = NewRouter("reasoning")
    /\ routerCall = NoRouterCall

\* every pair of bounded calls, before generate_tool_hash is applied
InitHash ==
    /\ InitPool
    /\ InitLoop
    /\ InitOrch
    /\ InitClean
    /\ InitTtl
    /\ InitNoRes
    /\ hashIn \in HashCalls \X HashCalls
    /\ hashOut = NotHashed

\* every bounded transcript, before _cleanup_pending_calls runs on it
InitCleanup ==
    /\ InitPool
    /\ InitLoop
    /\ InitOrch
    /\ cleanIn \in SeqsUpTo(TurnKinds, MaxTranscript)
    /\ cleanOut = NotRun
    /\ InitTtl
    /\ InitNoHash
    /\ InitNoRes

Init == InitPool /\ InitLoop /\ InitOrch /\ InitClean /\ InitTtl /\ InitNoHash /\ InitNoRes

WorkerStep ==
    \E t \in 1..Len(tasks) :
        \/ WorkerBegin(t)
        \/ DepReleased(t)
        \/ \E ok \in BOOLEAN : StartReturns(t, ok)
        \/ LoopMessage(t, "none")
        \/ LoopEnds(t)
        \/ LoopRaises(t)
        \/ LoopCancelled(t)
        \/ StopReturns(t)

NextPool ==
    \/ \E deps \in DepChoices : Spawn(deps)
    \/ WorkerStep
    \/ \E id \in WorkerIds : Cancel(id, FALSE)
    \/ CancelAll(FALSE)
    \/ WaitForCall(TRUE, 0)
    \/ \E id \in WorkerIds : WaitForCall(FALSE, id)
    \/ WaitForResume
    \/ WaitForReturn

\* one pool: spawn, the workers' steps, cancel, cancel_all, wait_for
SpecPool == Init /\ [][NextPool]_vars

NextPoolCancel ==
    \/ \E deps \in DepChoices : Spawn(deps)
    \/ WorkerStep
    \/ \E id \in WorkerIds, follow \in BOOLEAN : Cancel(id, follow)
    \/ \E id \in WorkerIds : CancelRefused(id)
    \/ \E follow \in BOOLEAN : CancelAll(follow)
    \/ CancelDone
    \/ CancelTaken

\* one pool, with a caller of cancel and cancel_all followed to its return
SpecPoolCancel == Init /\ [][NextPoolCancel]_vars

NextPoolMeta ==
    \/ \E deps \in DepChoices : Spawn(deps)
    \/ WorkerStep
    \/ \E t \in 1..Len(tasks), meta \in MetaChoices : LoopMessage(t, meta)
    \/ \E id \in WorkerIds : Cancel(id, FALSE)

\* one pool whose workers' loops flag their messages' metadata
SpecPoolMeta == Init /\ [][NextPoolMeta]_vars

\* the steps of task slot t when every awaited call returns: start(), the
\* agent loop's model and tool calls, stop()
WorkerReturns(t) ==
    /\ t \in 1..Len(tasks)
    /\ \/ WorkerBegin(t)
       \/ DepReleased(t)
       \/ StartReturns(t, TRUE)
       \/ LoopEnds(t)
       \/ StopReturns(t)

NextPoolLive ==
    \/ \E deps \in DepChoices : Spawn(deps)
    \/ \E t \in 1..MaxTasks : WorkerReturns(t)
    \/ \E t \in 1..Len(tasks) : LoopMessage(t, "none")

\* one pool without cancellation, every awaited call returning: the event
\* loop runs every task that is ready, and a loop of bounded iterations ends
SpecPoolLive ==
    /\ Init
    /\ [][NextPoolLive]_vars
    /\ \A t \in 1..MaxTasks : WF_vars(WorkerReturns(t))

\* the same with pools constructed anew over the registry that was left
SpecPoolRestart == Init /\ [][NextPool \/ NewPool]_vars

NextLoop ==
    \/ \E a \in AgentIds : AgentRun(a, FALSE)
    \/ \E a \in AgentIds, tcs \in TurnChoices : LlmReturns(a, tcs)
    \/ \E a \in AgentIds : LlmRaises(a)
    \/ \E a \in AgentIds, v \in ToolResults : ExecReturns(a, v)
    \/ \E a \in AgentIds : ExecRaises(a)
    \/ \E k \in CacheKeys : ExpireEntry(k)

\* agents running the tool-call loop over one tool-result cache
SpecLoop == Init /\ [][NextLoop]_vars

NextLoopTranscript ==
    \/ AgentRun(1, TRUE)
    \/ \E tcs \in TurnChoices : LlmReturns(1, tcs)
    \/ LlmRaises(1)
    \/ \E v \in ToolResults : ExecReturns(1, v)
    \/ ExecRaises(1)
    \/ \E k \in CacheKeys : ExpireEntry(k)

\* one run of the tool-call loop, with its conversation_history
SpecLoopTranscript == Init /\ [][NextLoopTranscript]_vars

NextOrchRun ==
    \/ RunCall
    \/ \E hasFinish \in BOOLEAN : RunBegin(hasFinish)
    \/ \E content \in Contents, tools \in SeqsUpTo(ToolKinds, MaxCalls) :
          CompletionWithCalls(content, tools)
    \/ FanOut
    \/ \E j \in 1..Len(calls), ok \in BOOLEAN, val \in FinishResults :
          ToolSettles(j, ok, val)
    \/ FanIn
    \/ \E content \in Contents : CompletionWithoutCalls(content)
    \/ \E v \in FinishResults : AutoFinishReturns(v)
    \/ AutoFinishRaises
    \/ CompletionRaises
    \/ CompleteBroadcast
    \/ ErrorBroadcast

NextOrch ==
    \/ NextOrchRun
    \/ CancelCall
    \/ CancelReturns

\* successive runs of the orchestrator, every broadcast succeeding and
\* cancel() never called
SpecOrchRun == Init /\ [][NextOrchRun]_vars

\* the orchestrator: successive runs, and cancel() called at any moment
SpecOrch == Init /\ [][NextOrch]_vars

BroadcastRaises ==
    \/ StartBroadcastRaises
    \/ TokensBroadcastRaises
    \/ ThinkingBroadcastRaises
    \/ \E j \in 1..Len(calls) : ToolCallBroadcastRaises(j)
    \/ \E j \in 1..Len(calls), val \in FinishResults, again \in BOOLEAN :
          ToolResultBroadcastRaises(j, val, again)
    \/ \E j \in 1..Len(calls) : ToolErrorBroadcastRaises(j)
    \/ \E content \in Contents : AutoFinishBroadcastRaises(content)
    \/ CompleteBroadcastRaises
    \/ ErrorBroadcastRaises

\* successive runs of the orchestrator with a channel layer whose group_send
\* can raise
SpecOrchBroadcast == Init /\ [][NextOrchRun \/ BroadcastRaises]_vars

\* the same, and the task driving run() can be cancelled at any await
SpecOrchStop == Init /\ [][NextOrchRun \/ BroadcastRaises \/ RunCancelled]_vars

\* _cleanup_pending_calls applied to every bounded transcript
SpecCleanup == InitCleanup /\ [][RunCleanup]_vars

\* the same with reset() and with pools constructed anew over the registry
SpecPoolReset == Init /\ [][NextPool \/ Reset \/ NewPool]_vars

\* the lifetimes the store's default timeout can give, against set_worker's
DefaultTtls == 1..WorkerTtl

NextRegistry ==
    \/ \E id \in WorkerIds, st \in AgentStatus : SetWorker(id, st)
    \/ \E id \in WorkerIds, d \in DefaultTtls : DeleteWorker(id, d)
    \/ Tick

\* the worker directory of one project under any sequence of set_worker and
\* delete_worker, with time passing
SpecRegistry == Init /\ [][NextRegistry]_vars

\* generate_tool_hash applied to every pair of bounded calls
SpecHash == InitHash /\ [][RunHash]_vars

\* the result selection applied to every bounded plan and stream
SpecResult == InitResult /\ [][RunResult]_vars

NextRouter ==
    \/ \E tier \in TierArgs : GetModelCall(tier)
    \/ \E model \in ModelNames : ReportFailure(model)
    \/ \E model \in ModelNames : ReportSuccess(model)

\* one router, the three methods called in any order
SpecRouter == InitRouter /\ [][NextRouter]_vars

(***************************************************************************)
(* Properties                                                              *)
(***************************************************************************)
\* C1 (as claimed): a tool call issued while the cache holds an entry for its
\* key (written by an earlier successful execution, not yet expired) is not
\* executed, and its result is the cached value, whatever that value is.
C1_CachedCallNotExecuted ==
    lastCall.prior # None =>
        (~lastCall.executed /\ lastCall.result = lastCall.prior)

C3_WaitForAllFromRegistry ==
    (wf.pc = "ret" /\ wf.all /\ wf.q) => wf.res = wf.exp

\* C4 (as claimed): a worker that was released from its wait on a dependency
\* that ended by an exception or by cancellation, and whose own task was not
\* cancelled, has a terminal status when its task is done.
C4_ReleasedWorkerEndsTerminal ==
    \A t \in 1..Len(tasks) :
        (tasks[t].rel /\ IsDone(t) /\ tasks[t].out # "cancelled")
            => tasks[t].mem \in Terminal

\* C10: the spawn that directly follows reset() returns worker id 0, and
\* when it returns the worker directory (records and id list) holds the new
\* worker's record and no other.
C10_ResetThenSpawn ==
    [][(lastOp = "reset" /\ lastOp' = "respawn") =>
          /\ tasks'[Len(tasks')].wid = 0
          /\ {id \in WorkerIds : regRec'[id] # NoRec} = {0}
          /\ workerList' = <<0>>]_vars

\* reset() then spawn() after an earlier spawn whose worker still executes
C10_Witness ==
    /\ lastOp = "respawn"
    /\ Len(tasks) >= 2
    /\ \E t \in 1..(Len(tasks) - 1) : ~IsDone(t) /\ tasks[t].mem = RUNNING

(***************************************************************************)
(* Properties of the orchestrator                                          *)
(***************************************************************************)
\* C5: the tool calls of one model turn are in flight together, and a step
\* that appends a tool turn to the transcript is taken only when every
\* execution has settled and appends exactly one tool turn per call, in
\* request order, whatever order the executions settled in.
C5_FanInRequestOrder ==
    [][(/\ Len(messages') > Len(messages)
        /\ messages'[Len(messages')].role = "tool")
       => /\ Settled(calls)
          /\ messages' = messages \o [n \in 1..Len(calls) |-> ToolTurn(calls[n].id)]]_vars

\* two calls were in flight together, the second settled first, and the
\* transcript ends with their tool turns in request order
C5_Witness ==
    /\ Len(calls) = 2
    /\ calls[2].ord = 1 /\ calls[1].ord = 2
    /\ orch.pc # "gather"
    /\ Len(messages) >= 3
    /\ messages[Len(messages) - 2] = CallsTurn(<<calls[1].id, calls[2].id>>)
    /\ messages[Len(messages) - 1] = ToolTurn(calls[1].id)
    /\ messages[Len(messages)] = ToolTurn(calls[2].id)

\* the transcript ends in [user, assistant(tool_calls), tool, tool]
EndsInPendingCalls(m) ==
    /\ Len(m) >= 4
    /\ m[Len(m) - 3].role = "user"
    /\ m[Len(m) - 2].role = "assistant" /\ m[Len(m) - 2].tcs # << >>
    /\ m[Len(m) - 1].role = "tool"
    /\ m[Len(m)].role = "tool"

\* C6 as stated: on a transcript ending in [user, assistant(tool_calls),
\* tool, tool] the cleanup removes exactly the three trailing turns, and the
\* user turn before them stays.
C6_RemovesThreeTurns ==
    (cleanOut.ran /\ EndsInPendingCalls(cleanIn))
        => cleanOut.msgs = SubSeq(cleanIn, 1, Len(cleanIn) - 3)

\* C6 as the code has it: on a transcript ending in [user,
\* assistant(tool_calls), tool, tool] the cleanup removes the two tool turns,
\* the assistant tool-call turn and the user turn before them, and stops
\* there: everything before that user turn stays.
C6_RemovesFourTurns ==
    (cleanOut.ran /\ EndsInPendingCalls(cleanIn))
        => cleanOut.msgs = SubSeq(cleanIn, 1, Len(cleanIn) - 4)

\* the cleanup has run on such a transcript, with a turn before the user turn
C6_Witness ==
    /\ cleanOut.ran
    /\ EndsInPendingCalls(cleanIn)
    /\ Len(cleanIn) = 5
    /\ cleanOut.msgs = <<cleanIn[1]>>

\* every tool turn refers to a call of an assistant tool-call turn before it,
\* and every assistant tool-call turn is followed by a tool turn for each of
\* its calls
ValidTranscript(m) ==
    /\ \A i \in 1..Len(m) : m[i].role = "tool" =>
          \E j \in 1..(i - 1) : /\ m[j].role = "assistant"
                                /\ \E n \in 1..Len(m[j].tcs) : m[j].tcs[n] = m[i].id
    /\ \A j \in 1..Len(m) : (m[j].role = "assistant" /\ m[j].tcs # << >>) =>
          \A n \in 1..Len(m[j].tcs) :
              \E i \in (j + 1)..Len(m) : m[i].role = "tool" /\ m[i].id = m[j].tcs[n]

\* C7: once cancel() has returned, and until run() is called again, the
\* transcript is structurally valid.
C7_ValidAfterCancel == orch.afterCancel => ValidTranscript(messages)

\* C8: a completion without tool calls, in a run that has spawned a worker:
\* with a finish tool, finish is invoked with the completion text as context,
\* the report is the value finish returns (and stays empty when finish
\* raises); without a finish tool the report is the completion text.
C8_ForcedFinish ==
    (orch.end = "notool" /\ orch.spawned > 0) =>
        IF orch.hasFinish
        THEN /\ orch.finish \in {"returned", "raised"}
             /\ orch.ctx = orch.content
             /\ orch.finish = "returned" => orch.report = orch.fval
             /\ orch.finish = "raised" => orch.report = ""
        ELSE orch.finish = "none" /\ orch.report = orch.content

\* a run that spawned a worker ended on a completion without tool calls, and
\* the report is what finish returned, not the completion text
C8_Witness ==
    /\ orch.end = "notool" /\ orch.spawned > 0 /\ orch.hasFinish
    /\ orch.finish = "returned" /\ orch.ctx = "t" /\ orch.content = "t"
    /\ orch.fval = "f" /\ orch.report = "f"

\* C9: in a run that has spawned no worker, a completion without tool calls
\* is the report verbatim and finish is not invoked, whatever records earlier
\* runs left in the registry.
C9_VerbatimWithoutWorkers ==
    /\ (orch.pc = "autofinish") => orch.spawned > 0
    /\ (orch.end = "notool" /\ orch.spawned = 0) =>
           (orch.finish = "none" /\ orch.report = orch.content)

(***************************************************************************)
(* Properties of the worker pool: reset, outcomes, cancellation            *)
(***************************************************************************)
\* C11: from the return of reset() until the next spawn the pool is as a
\* fresh one: no worker record and an empty worker list in the registry, an
\* empty task table and the counter at 0, also when workers spawned before
\* the reset are still executing.
C11_FreshAfterReset ==
    lastOp \in {"reset", "afterreset"} =>
        /\ LiveRecords = {}
        /\ workerList = << >>
        /\ Tracked = {}
        /\ nextId = 0

\* C12: a worker whose loop flagged replan_impossible and then ended
\* normally has FAILED in its final registry record.
C12_InfeasibleIsFailed ==
    \A t \in 1..Len(tasks) :
        (IsDone(t) /\ tasks[t].infeasible /\ ~tasks[t].exc /\ tasks[t].out = "ok")
            => regRec[tasks[t].wid] = FAILED

\* C13: a worker whose loop flagged max_iterations_reached (and not
\* replan_impossible) and then ended normally has WARNING in its final
\* registry record.
C13_IterationCapIsWarning ==
    \A t \in 1..Len(tasks) :
        (/\ IsDone(t)
         /\ tasks[t].hitmax /\ ~tasks[t].infeasible
         /\ ~tasks[t].exc /\ tasks[t].out = "ok")
            => regRec[tasks[t].wid] = WARNING

\* C14: a worker reached by a cancel call while it waits for a dependency,
\* starts its runtime or is in its loop ends with status CANCELLED and with
\* its task cancelled.
C14_CancelledAtAnyPoint ==
    \A t \in 1..Len(tasks) :
        (IsDone(t) /\ tasks[t].hit \in {"waitdep", "starting", "loop"})
            => (tasks[t].mem = CANCELLED /\ tasks[t].out = "cancelled")

\* C15: a worker in whose execution an exception other than cancellation was
\* raised ends with status ERROR, in memory and in the registry.
C15_ExceptionIsError ==
    \A t \in 1..Len(tasks) :
        (IsDone(t) /\ tasks[t].exc)
            => (tasks[t].mem = ERROR /\ regRec[tasks[t].wid] = ERROR)

\* C16: when a worker's task is done and start() of its runtime was invoked,
\* stop() of that runtime was invoked too.
C16_StartedIsStopped ==
    \A t \in 1..Len(tasks) : (IsDone(t) /\ tasks[t].started) => tasks[t].stopped

\* C17: once cancel(id) has returned True or cancel_all() has returned, every
\* task it aimed at is done and takes no further step; and a cancel(id) that
\* returns False was given an id that is not tracked or whose task is done,
\* and changes nothing.
C17_CancelWaitsForCompletion ==
    [][/\ (cc.pc = "ret" /\ cc.ok) =>
              \A t \in cc.targets : IsDone(t) /\ tasks'[t] = tasks[t]
       /\ (cc'.pc = "ret" /\ ~cc'.ok /\ cc.pc = "idle") =>
              /\ IF poolTasks[cc'.arg] = 0 THEN TRUE ELSE IsDone(poolTasks[cc'.arg])
              /\ UNCHANGED <<tasks, poolTasks, regRec, workerList>>]_vars

\* cancel_all() has returned with two targets, one of them cancelled in its
\* loop
C17_Witness ==
    /\ cc.pc = "ret" /\ cc.ok /\ cc.kind = "all"
    /\ Cardinality(cc.targets) = 2
    /\ \E t \in cc.targets : tasks[t].hit = "loop" /\ tasks[t].out = "cancelled"

(***************************************************************************)
(* Properties of the orchestrator: broadcasting, errors, finish            *)
(***************************************************************************)
\* C18: a broadcast that raises does not change the outcome of a run: a run
\* in which the model never raises ends in state COMPLETE (as it does when
\* every broadcast succeeds) also when a broadcast raised in it.
C18_BroadcastFailureHarmless ==
    (orch.pc = "done" /\ orch.bfail /\ ~orch.llmraised) => orch.state = "complete"

\* C19: when an exception escaped the loop of run(), the run ends with state
\* ERROR, exactly one error event and no complete event emitted, and the
\* cleanup of the finally run.
C19_EscapedExceptionHandled ==
    (orch.pc = "done" /\ orch.end = "error") =>
        /\ orch.state = "error"
        /\ orch.errEv = 1
        /\ orch.compEv = 0
        /\ orch.cleaned

\* the positions of the calls of the turn that are successful finish calls
FinishedCalls == {j \in 1..Len(calls) : calls[j].tool = "finish" /\ calls[j].st = "ok"}

\* C20: at the end of an iteration with tool calls, the loop ends if a finish
\* call of the turn succeeded, with the text finish returned as the report,
\* whatever that text is; and it goes on to the next iteration (while below
\* the iteration bound) if none did.
C20_FinishEndsLoop ==
    [][(orch.pc = "gather" /\ orch'.pc \in {"llm", "completing"}) =>
          /\ FinishedCalls # {} =>
                /\ orch'.pc = "completing"
                /\ orch'.end = "finish"
                /\ \E j \in FinishedCalls : orch'.report = calls[j].val
          /\ (FinishedCalls = {} /\ orch.iter < OrchMaxIterations) =>
                orch'.pc = "llm"]_vars

(***************************************************************************)
(* Properties of the worker directory and of the workers' execution        *)
(***************************************************************************)
\* C21: whenever a worker is suspended or its task is done, the status in
\* its registry record equals the status of the worker object, and the
\* record of a worker whose task is done is neither PENDING nor RUNNING.
C21_StatusWrittenThrough ==
    \A t \in 1..Len(tasks) :
        tasks[t].st # "created" =>
            /\ regRec[tasks[t].wid] = tasks[t].mem
            /\ IsDone(t) => regRec[tasks[t].wid] \notin {PENDING, RUNNING}

\* C22: the id list holds the id of every worker record that is stored, so
\* get_all_workers returns exactly the stored worker records.
C22_ListCoversLiveRecords ==
    /\ LiveRecords \subseteq Range(workerList)
    /\ GetAllWorkers(regRec, workerList) = LiveRecords

\* C24 (orchestrator): a call whose tool's execute raised has a failed
\* result, and the turn it belongs to is left only when every call of the
\* turn has settled, for the next model request or the regular end of the
\* loop (the iteration bound, or a finish call of the same turn).
C24_ToolErrorCaptured ==
    [][/\ \A j \in 1..Len(calls') : calls'[j].raised => calls'[j].st = "err"
       /\ (/\ orch.pc = "gather"
           /\ \E j \in 1..Len(calls) : calls[j].raised
           /\ orch'.pc # "gather")
          => /\ Settled(calls)
             /\ orch'.pc \in {"llm", "completing"}
             /\ orch'.pc = "completing" => orch'.end \in {"finish", "bound"}]_vars

\* C25: a worker spawned without dependencies never waits for another
\* task: its first step, unless it was cancelled before, makes it RUNNING
\* (status written through) and starts its runtime, whatever the other
\* workers are doing.
C25_IndependentStartsAtOnce ==
    [][\A t \in 1..Len(tasks') :
          tasks'[t].deps = << >> =>
             /\ tasks'[t].st # "waitdep"
             /\ IF t <= Len(tasks)
                THEN (/\ tasks[t].st = "created"
                      /\ tasks'[t].st # "created"
                      /\ ~tasks[t].creq)
                     => /\ tasks'[t].st = "starting"
                        /\ tasks'[t].mem = RUNNING
                        /\ regRec'[tasks[t].wid] = RUNNING
                ELSE TRUE]_vars

\* two workers spawned without dependencies are both RUNNING, in memory and
\* in the registry, and neither has completed
C25_Witness ==
    /\ Len(tasks) = 2
    /\ \A t \in 1..2 : /\ tasks[t].deps = << >>
                        /\ tasks[t].st \in {"starting", "loop"}
                        /\ tasks[t].mem = RUNNING
                        /\ regRec[tasks[t].wid] = RUNNING

\* C26: the id a spawn returns is greater than every id returned before on
\* the pool (so the ids are pairwise distinct), and when spawn returns the
\* registry holds the new worker's record, PENDING, and lists its id.
C26_FreshIncreasingIds ==
    [][Len(tasks') = Len(tasks) + 1 =>
          LET new == tasks'[Len(tasks')].wid
          IN /\ \A t \in 1..Len(tasks) : tasks[t].wid < new
             /\ regRec'[new] = PENDING
             /\ new \in Range(workerList')
             /\ poolTasks'[new] = Len(tasks')]_vars

\* a second spawn has returned while the first worker is still executing
C26_Witness ==
    /\ Len(tasks) = 2
    /\ tasks[1].wid = 0 /\ tasks[2].wid = 1
    /\ tasks[1].st = "loop" /\ tasks[2].st = "created"
    /\ regRec[1] = PENDING /\ regRec[0] = RUNNING

\* C28: a step in which an exception is raised in one worker changes no
\* other task and no other worker's record; a worker whose dependency ended
\* by an exception goes on from its wait as after any dependency, without
\* failing itself; and cancel_all, the one call the orchestrator makes on the
\* pool, does not raise because of it.
C28_ExceptionIsolated ==
    [][/\ \A t \in 1..Len(tasks) :
             (tasks'[t].exc /\ ~tasks[t].exc) =>
                 \A u \in 1..Len(tasks) \ {t} :
                     /\ tasks'[u] = tasks[u]
                     /\ regRec'[tasks[u].wid] = regRec[tasks[u].wid]
       /\ \A u \in 1..Len(tasks) :
             (/\ tasks[u].st = "waitdep"
              /\ tasks[tasks[u].wait].out = "exc"
              /\ tasks'[u] # tasks[u])
                 => /\ tasks'[u].st \in {"waitdep", "starting"}
                    /\ tasks'[u].mem \in {PENDING, RUNNING}
                    /\ ~tasks'[u].exc
       /\ (cc.pc = "wait" /\ cc.kind = "all") => cc'.pc \in {"wait", "ret"}]_vars

\* a worker ended in ERROR by an exception; the worker that depended on it
\* was released, ran and completed
C28_Witness ==
    /\ Len(tasks) = 2
    /\ tasks[1].exc /\ regRec[tasks[1].wid] = ERROR
    /\ tasks[2].rel /\ IsDone(2) /\ tasks[2].out = "ok"
    /\ regRec[tasks[2].wid] = COMPLETE
    /\ ~tasks[2].exc

(***************************************************************************)
(* Properties of generate_tool_hash                                        *)
(***************************************************************************)
\* C23: two calls with equal role, tool name and context whose argument
\* mappings hold the same name/value pairs, in whatever order, get the same
\* key; in particular equal calls get equal keys.
C23_HashIgnoresArgumentOrder ==
    hashOut.ran =>
        ((/\ hashIn[1].role = hashIn[2].role
          /\ hashIn[1].tool = hashIn[2].tool
          /\ hashIn[1].context = hashIn[2].context
          /\ Range(hashIn[1].arguments) = Range(hashIn[2].arguments))
            => hashOut.keys[1] = hashOut.keys[2])

\* the two calls give the same two arguments in opposite orders and got the
\* same key
C23_Witness ==
    /\ hashOut.ran
    /\ Len(hashIn[1].arguments) = 2
    /\ hashIn[2].arguments = <<hashIn[1].arguments[2], hashIn[1].arguments[1]>>
    /\ hashIn[1].role = hashIn[2].role
    /\ hashIn[1].tool = hashIn[2].tool
    /\ hashIn[1].context = hashIn[2].context
    /\ hashOut.keys[1] = hashOut.keys[2]

(***************************************************************************)
(* Properties of the tool-call loop                                        *)
(***************************************************************************)
\* C27: a run of the tool-call loop that ended at its iteration bound has
\* yielded a message whose metadata flags max_iterations_reached.
C27_BoundIsReported ==
    \A a \in AgentIds : agents[a].end = "bound" => agents[a].flagged

\* C29: the loop makes at most max_iterations model requests; a completion
\* without tool calls ends it, appended as the last assistant turn; no turn
\* without tool calls is in the transcript while the loop goes on; and once
\* the loop has ended nothing more happens in it.
C29_LoopTerminates ==
    [][\A a \in AgentIds :
          /\ agents'[a].iter <= LoopMaxIterations
          /\ (agents[a].pc = "llm" /\ agents'[a].end = "final") =>
                /\ agents'[a].pc = "done"
                /\ agents'[a].iter = agents[a].iter
                /\ agents[a].keep => agents'[a].hist = Append(agents[a].hist, LoopFinal)
          /\ agents'[a].pc \in {"llm", "exec"} =>
                \A i \in 1..Len(agents'[a].hist) : agents'[a].hist[i] # LoopFinal
          /\ agents[a].pc = "done" => agents'[a] = agents[a]]_vars

\* a run used every iteration it had and ended with a final answer, after a
\* turn with tool calls
C29_Witness ==
    /\ agents[1].pc = "done" /\ agents[1].end = "final"
    /\ agents[1].iter = LoopMaxIterations
    /\ Len(agents[1].hist) >= 4
    /\ agents[1].hist[Len(agents[1].hist)] = LoopFinal

\* the transcript h from position i on: each assistant turn with tool calls
\* is followed by one result turn per call, in request order, with the id
\* and the name of the call; results are missing only for the calls from
\* the one being executed on; a turn without tool calls is the last one
RECURSIVE WholeTurnsFrom(_, _, _)
WholeTurnsFrom(h, i, ag) ==
    IF i > Len(h) THEN TRUE
    ELSE IF h[i].role = "assistant" /\ h[i].tcs # << >>
    THEN LET n == Len(h[i].tcs)
             have == IF i + n <= Len(h) THEN n ELSE Len(h) - i
         IN /\ \A j \in 1..have : /\ h[i + j].role = "tool_result"
                                   /\ h[i + j].id = h[i].tcs[j].id
                                   /\ h[i + j].name = h[i].tcs[j].name
            /\ IF have = n THEN WholeTurnsFrom(h, i + n + 1, ag)
               ELSE ag.pc = "exec" /\ ag.ti = have + 1
    ELSE IF h[i].role = "assistant" THEN i = Len(h) /\ ag.pc = "done"
    ELSE FALSE

Passed(t) ==
    LET from == IF tasks[t].st = "created" THEN 1 ELSE tasks[t].di
        upto == IF tasks'[t].st = "waitdep" THEN tasks'[t].di - 1
                ELSE Len(tasks[t].deps)
    IN IF /\ tasks[t].st \in {"created", "waitdep"}
          /\ tasks'[t].st \in {"waitdep", "starting"}
          /\ tasks'[t] # tasks[t]
          /\ (tasks[t].st = "waitdep" => tasks'[t].st = "starting"
                                          \/ tasks'[t].di > tasks[t].di)
       THEN from..upto ELSE {}

\* task t suspends on a dependency in the step taken
Suspends(t) ==
    /\ tasks'[t].st = "waitdep"
    /\ \/ tasks[t].st = "created"
       \/ tasks[t].st = "waitdep" /\ tasks'[t].di > tasks[t].di

\* the task that position i of depends_on stands for when t reaches it: the
\* one t is awaiting, or the one tracked under the id (0: none)
DepTask(t, i) ==
    IF tasks[t].st = "waitdep" /\ i = tasks[t].di THEN tasks[t].wait
    ELSE poolTasks[tasks[t].deps[i]]

\* C31 as stated: a worker gets past a dependency id, on its way to
\* RUNNING, only when the id is not tracked or its task is done; and it
\* waits only for a task that is tracked and not done.
C31_WaitsForTrackedDeps ==
    [][\A t \in 1..Len(tasks) :
          /\ \A i \in Passed(t) :
                IF DepTask(t, i) = 0 THEN TRUE ELSE IsDone(DepTask(t, i))
          /\ Suspends(t) =>
                /\ tasks'[t].wait # 0
                /\ tasks'[tasks'[t].wait].st # "done"]_vars

\* C31 as the code has it: the same for every dependency id but the
\* worker's own, which is tracked and not done and does not delay it.
C31_WaitsForOtherTrackedDeps ==
    [][\A t \in 1..Len(tasks) :
          /\ \A i \in Passed(t) :
                IF DepTask(t, i) = 0 \/ DepTask(t, i) = t THEN TRUE
                ELSE IsDone(DepTask(t, i))
          /\ Suspends(t) =>
                /\ tasks'[t].wait \notin {0, t}
                /\ tasks'[tasks'[t].wait].st # "done"]_vars

\* a worker that depends on an earlier worker has been RUNNING only after
\* that worker's task was done by an exception or a cancellation
C31_Witness ==
    /\ Len(tasks) = 2
    /\ tasks[2].deps = <<0>> /\ tasks[1].wid = 0
    /\ tasks[2].rel /\ tasks[2].mem = RUNNING
    /\ IsDone(1)

\* C34: whatever depends_on lists were given to spawn, every spawned worker
\* eventually has a terminal status and a task that is done, when every
\* awaited call returns.
C34_EveryWorkerSettles ==
    \A t \in 1..MaxTasks :
        [](Len(tasks) >= t =>
              <>(Len(tasks) >= t /\ tasks[t].mem \in Terminal /\ IsDone(t)))

(***************************************************************************)
(* Properties of the crew state at the end of run()                        *)
(***************************************************************************)
\* C32: a run() that has started has set the state to RUNNING, and a run()
\* that has stopped, by whatever path, has left the state COMPLETE or ERROR.
C32_NeverLeftRunning ==
    /\ orch.pc = "start" => orch.state = "running"
    /\ orch.pc = "done" => orch.state \in {"complete", "error"}

(***************************************************************************)
(* Properties of the result of a worker                                    *)
(***************************************************************************)
\* the text a completion without tool calls carried, when it carried one
FreeText(m) == m.role = "assistant" /\ ~m.calls /\ m.content # NoText

\* the result as stated: the plan summary when a step of the plan carries a
\* result, otherwise the text of the last completion without tool calls,
\* otherwise 'No findings.'
StatedResult(plan, ms) ==
    IF plan.present /\ \E n \in 1..Len(plan.steps) : StepHasResult(plan.steps[n])
    THEN PlanSummary(plan)
    ELSE IF \E n \in 1..Len(ms) : FreeText(ms[n])
    THEN ms[CHOOSE n \in 1..Len(ms) :
                FreeText(ms[n]) /\ \A k \in (n + 1)..Len(ms) : ~FreeText(ms[k])].content
    ELSE NoFindings

\* C33: the result of a worker whose loop completed is the plan summary when
\* a plan step carries a result, otherwise the last free-text completion
\* without tool calls, otherwise 'No findings.', and it is never empty.
C33_ResultSelection ==
    resOut.ran =>
        /\ resOut.result = StatedResult(resIn.plan, resIn.stream)
        /\ resOut.result # NoText

(***************************************************************************)
(* Properties of cancel(id) on the other workers                           *)
(***************************************************************************)
\* C35: a call of cancel(id) that finds the task of id running leaves every
\* other worker as it was: no cancellation is requested of its task, and its
\* status and its record do not change.
C35_CancelAffectsOnlyId ==
    [][\A id \in WorkerIds, follow \in BOOLEAN :
          Cancel(id, follow) =>
              \A u \in 1..Len(tasks) :
                  u # poolTasks[id] =>
                      /\ tasks'[u].creq = tasks[u].creq
                      /\ tasks'[u].st = tasks[u].st
                      /\ tasks'[u].mem = tasks[u].mem
                      /\ regRec'[tasks[u].wid] = regRec[tasks[u].wid]]_vars

(***************************************************************************)
(* Properties of the tool cache under concurrent agents                    *)
(***************************************************************************)
\* the cache key of the call agent a is executing
InFlight(a) == agents[a].tcs[agents[a].ti]

\* C36: two agents never have the tool's execute in flight for the same
\* cache key at once: a call issued while an identical one is executing is
\* not executed a second time.
C36_IdenticalCallInFlightOnce ==
    \A a \in AgentIds, b \in AgentIds :
        (a # b /\ agents[a].pc = "exec" /\ agents[b].pc = "exec")
            => InFlight(a) # InFlight(b)

(***************************************************************************)
(* Properties of the terminal events of run()                              *)
(***************************************************************************)
\* C37: a run() that has ended has emitted exactly one terminal event: an
\* error event only if its state is ERROR, a complete event only if its
\* state is COMPLETE.
C37_OneTerminalEvent ==
    orch.pc = "done" =>
        /\ orch.errEv + orch.compEv = 1
        /\ orch.errEv > 0 => orch.state = "error"
        /\ orch.compEv > 0 => orch.state = "complete"

(***************************************************************************)
(* Properties of the orchestrator after cancel()                           *)
(***************************************************************************)
\* C38: once cancel() has returned, and until run() is called again, the
\* state stays IDLE and the transcript gets no new turn.
C38_IdleAfterCancel ==
    [][(orch.afterCancel /\ orch'.run = orch.run) =>
          /\ orch'.state = "idle"
          /\ Len(messages') <= Len(messages)]_vars

(***************************************************************************)
(* Properties of the registry keys across pools and resets                 *)
(***************************************************************************)
\* C39: when spawn writes the record of a new worker, no record is stored
\* under its key and no earlier worker with its id is still executing.
C39_SpawnOverwritesNothing ==
    [][Len(tasks') = Len(tasks) + 1 =>
          LET w == tasks'[Len(tasks')].wid
          IN /\ regRec[w] = NoRec
             /\ \A u \in 1..Len(tasks) : tasks[u].wid = w => IsDone(u)]_vars

(***************************************************************************)
(* Properties of the model router                                          *)
(***************************************************************************)
\* the tier a call of get_model is about: the requested one, or the
\* router's default tier when the requested one is absent or unknown
StatedTier(r, tier) == IF tier \in TierNames THEN tier ELSE r.default_tier

InTier(m, tier) == \E n \in 1..Len(TierModels(tier)) : TierModels(tier)[n] = m

\* C40: whatever calls came before, a call of get_model returns a model of
\* the requested tier (of the default tier when the requested one is
\* unknown) whose breaker is closed when the call returns; when every
\* breaker of the tier was open, all of them are closed and the tier's first
\* model is returned. The call raises only in a router whose default tier is
\* itself unknown.
C40_ReturnsClosedModelOfTier ==
    [][routerCall'.op = "get_model" =>
          LET tier == StatedTier(router, routerCall'.tier)
              model == routerCall'.model
          IN IF routerCall'.raised
             THEN router.default_tier \notin TierNames
             ELSE /\ InTier(model, tier)
                  /\ ~IsOpen(router'.breakers, model)
                  /\ (\A m \in ModelNames : InTier(m, tier) => IsOpen(router.breakers, m))
                        => /\ \A m \in ModelNames :
                                 InTier(m, tier) => ~IsOpen(router'.breakers, m)
                           /\ model = TierModels(tier)[1]]_vars

\* get_model for an unknown tier found every breaker of the default tier
\* open, closed them and returned the tier's first model, while a breaker of
\* another tier stays open
C40_Witness ==
    /\ routerCall.op = "get_model"
    /\ routerCall.tier = OtherTier
    /\ router.default_tier = "summary"
    /\ routerCall.reset
    /\ routerCall.model = "gpt-4o-mini"
    /\ router.breakers["gpt-4o-mini"] = Closed
    /\ router.breakers["gemini-1.5-flash"] = Closed
    /\ router.breakers["claude-3-haiku-20240307"] = Open

====
